---- MODULE Spec2Model ----
(***************************************************************************)
(* A model of the MyDB query execution engine: Collection (database.py),   *)
(* IndexManager (index.py), Transaction (transaction.py) and the query     *)
(* parser (queryParser.py).                                                *)
(*                                                                         *)
(* Python objects are modelled with identity: every record dict lives in   *)
(* `heap` and the record map, a transaction's snapshot and cached result   *)
(* lists hold references into it, so that in-place mutation through one    *)
(* alias is seen through the others, as in the program.  Python dicts are  *)
(* ordered: a dict is a record [keys, map] whose `keys` is the insertion   *)
(* order.  Time is counted in whole seconds.                               *)
(***************************************************************************)
EXTENDS Integers, Sequences, FiniteSets, TLC

VARIABLES
    now,             \* the wall clock: time.time() / datetime.now(), in seconds
    schema,          \* Collection.schema
    data,            \* Collection.data: ordered dict id -> reference into heap
    heap,            \* the record dicts, by reference
    data_loaded,     \* Collection.data_loaded
    indexes,         \* Collection.indexes: ordered dict index key -> (value -> ids)
    last_save_time,  \* MyDB.last_save_time
    cache,           \* MyDB.cache: dict query key -> result list
    persisted,       \* the content of database.json held by the persistence backend
    others,          \* MyDB.collections: the other collections, name -> state
    last,            \* what the last call did and returned to its caller
    lock,            \* MyDB.lock: the thread holding it, or "none"
    pc,              \* per caller thread: the statement it is about to execute
    tx               \* per caller thread: the Transaction object it drives

vars == <<now, schema, data, heap, data_loaded, indexes, last_save_time, cache,
          persisted, others, last, lock, pc, tx>>

----------------------------------------------------------------------------
(* Bounds of the model *)

MaxTime == 2
MaxRef == 3

\* the most ops buffered in a Transaction built by its caller
MaxOps == 2

(* Program constants *)

save_interval == 1

----------------------------------------------------------------------------
(* Python values *)

Range(f) == {f[x] : x \in DOMAIN f}

SeqToSet(sq) == {sq[i] : i \in 1..Len(sq)}

\* {} : the empty dict
EmptyDict == [k \in {} |-> k]

\* an ordered dict with no entries
od_empty == [keys |-> <<>>, map |-> EmptyDict]

od_has(d, k) == k \in DOMAIN d.map

\* d[k] = v : an existing key keeps its position, a new key goes last
od_set(d, k, v) ==
    [keys |-> IF od_has(d, k) THEN d.keys ELSE Append(d.keys, k),
     map  |-> [x \in (DOMAIN d.map) \cup {k} |-> IF x = k THEN v ELSE d.map[x]]]

\* del d[k]
od_del(d, k) ==
    [keys |-> SelectSeq(d.keys, LAMBDA x : x # k),
     map  |-> [x \in (DOMAIN d.map) \ {k} |-> d.map[x]]]

\* dict(r, **{k: v})
dict_set(r, k, v) == [x \in (DOMAIN r) \cup {k} |-> IF x = k THEN v ELSE r[x]]

\* r.update(u)
dict_update(r, u) ==
    [x \in (DOMAIN r) \cup (DOMAIN u) |-> IF x \in DOMAIN u THEN u[x] ELSE r[x]]

\* float(s) over the literals the model uses: <<text, value>>; any other text
\* raises ValueError
FloatLiterals ==
    { <<"0", 0>>, <<"1", 1>>, <<"2", 2>>, <<"18", 18>>, <<"30", 30>>,
      <<"30.0", 30>>, <<"31", 31>>, <<"31.0", 31>>, <<" 30", 30>> }

IsFloat(s) == \E p \in FloatLiterals : p[1] = s

Float(s) == (CHOOSE p \in FloatLiterals : p[1] = s)[2]

\* str(float(s)) for an integral value
StrFloat(s) == ToString(Float(s)) \o ".0"

\* s.strip() over the texts the model uses that carry whitespace
StripPairs == { <<" 30", "30">>, <<"John ", "John">> }

Strip(s) == IF \E p \in StripPairs : p[1] = s
            THEN (CHOOSE p \in StripPairs : p[1] = s)[2]
            ELSE s

RECURSIVE Join(_, _)
\* sep.join(parts)
Join(parts, sep) ==
    IF Len(parts) = 0 THEN ""
    ELSE IF Len(parts) = 1 THEN parts[1]
    ELSE parts[1] \o sep \o Join(Tail(parts), sep)

ReservedFields == {"_id", "created_at", "updated_at"}

----------------------------------------------------------------------------
(* Collection: time, expiry, validation, matching *)

\* datetime.now().strftime("%Y-%m-%dT%H:%M:%S") at time t
current_time(t) == ToString(t)

IsTime(s) == \E t \in 0..MaxTime : current_time(t) = s

\* datetime.strptime(s, ...): the inverse of current_time; raises on other text
parse_time(s) == CHOOSE t \in 0..MaxTime : current_time(t) = s

\* is_expired raises ValidationError on a ttl or created_at it cannot parse
is_expired_raises(record) ==
    /\ "ttl" \in DOMAIN record
    /\ "created_at" \in DOMAIN record
    /\ (~IsFloat(record["ttl"]) \/ ~IsTime(record["created_at"]))

\* is_expired as it would be if a record lived through the instant its ttl ends
is_expired_after(record, t) ==
    /\ "ttl" \in DOMAIN record
    /\ "created_at" \in DOMAIN record
    /\ t > parse_time(record["created_at"]) + Float(record["ttl"])

is_expired(record, t) ==
    /\ "ttl" \in DOMAIN record
    /\ "created_at" \in DOMAIN record
    /\ t >= parse_time(record["created_at"]) + Float(record["ttl"])

\* validate_record(record) returns True; FALSE here stands for ValidationError
validate_record(record, sch) ==
    /\ "_id" \notin DOMAIN record
    /\ "created_at" \notin DOMAIN record
    /\ (Len(sch) > 0 =>
          /\ \A f \in SeqToSet(sch) :
                f \in DOMAIN record \/ f \in {"ttl", "updated_at"}
          /\ \A f \in DOMAIN record :
                /\ (f \in SeqToSet(sch) \/ f \in {"ttl", "updated_at"})
                /\ (f = "age" => IsFloat(record[f])))

\* op_holds as it would be if $gte were the strict comparison
op_holds_strict(record_value, ov) ==
    IF ov[1] = "$in" THEN record_value \in ov[2]
    ELSE LET n == Float(Strip(record_value)) IN
         CASE ov[1] = "$gt"  -> n > ov[2]
           [] ov[1] = "$gte" -> n > ov[2]
           [] ov[1] = "$lt"  -> n < ov[2]
           [] ov[1] = "$lte" -> n <= ov[2]

\* one comparison of an operator-object condition; ov[1] is the operator
op_holds(record_value, ov) ==
    IF ov[1] = "$in" THEN record_value \in ov[2]
    ELSE LET n == Float(Strip(record_value)) IN
         CASE ov[1] = "$gt"  -> n > ov[2]
           [] ov[1] = "$gte" -> n >= ov[2]
           [] ov[1] = "$lt"  -> n < ov[2]
           [] ov[1] = "$lte" -> n <= ov[2]

\* the body of match_query's loop for one key.  A condition is a string
\* (kind "str"), an operator dict (kind "ops") or, for a bare numeric
\* literal, a float (kind "num"), which neither isinstance branch handles.
cond_holds(record, key, c) ==
    /\ key \in DOMAIN record
    /\ CASE c.kind = "str" -> Strip(record[key]) = c.val
         [] c.kind = "ops" ->
              /\ IsFloat(Strip(record[key]))
              /\ \A i \in 1..Len(c.ops) : op_holds(record[key], c.ops[i])
         [] OTHER -> TRUE

match_query_raises(record, query, check_ttl) ==
    check_ttl /\ is_expired_raises(record)

\* match_query as it would be if one condition that holds were enough
match_query_any(record, query, check_ttl, t) ==
    /\ ~(check_ttl /\ is_expired(record, t))
    /\ (DOMAIN query = {} \/ \E key \in DOMAIN query : cond_holds(record, key, query[key]))

match_query(record, query, check_ttl, t) ==
    /\ ~(check_ttl /\ is_expired(record, t))
    /\ \A key \in DOMAIN query : cond_holds(record, key, query[key])

----------------------------------------------------------------------------
(* IndexManager *)

\* composite_key as it would be if the values were joined in the reverse of
\* the given order
composite_key_reversed(record, fields) ==
    Join([i \in 1..Len(fields) |-> record[fields[Len(fields) + 1 - i]]], "|")

\* "|".join(str(record[field]) for field in fields)
composite_key(record, fields) ==
    Join([i \in 1..Len(fields) |-> record[fields[i]]], "|")

\* the ids build_index puts under each composite value
index_of(fields, d, h) ==
    LET ids == {id \in DOMAIN d.map :
                  \A i \in 1..Len(fields) : fields[i] \in DOMAIN h[d.map[id]]}
        vals == {composite_key(h[d.map[id]], fields) : id \in ids}
    IN [cv \in vals |-> {id \in ids : composite_key(h[d.map[id]], fields) = cv}]

\* build_index(fields, data, indexes).  The new index is stored in `indexes`
\* before save_index_to_file is called; idx_ok: that call returns.  (It
\* raises when the index file cannot be written, and in index.py as it stands
\* on every call: line 41 uses `re`, which the module does not import.  The
\* model allows both outcomes.)
build_index(fields, d, h, idxs, idx_ok) ==
    IF Len(fields) = 0 \/ \E i \in 1..Len(fields) : fields[i] \in ReservedFields
    THEN [indexes |-> idxs, err |-> "ValidationError"]
    ELSE [indexes |-> od_set(idxs, Join(fields, ","), index_of(fields, d, h)),
          err |-> IF idx_ok THEN "none" ELSE "IndexError"]

\* the field tuples index keys of the model are built from
IndexTuples == { <<"name">>, <<"age">>, <<"age", "name">>, <<"name", "age">> }

\* index_key.split(",")
split_key(index_key) == CHOOSE t \in IndexTuples : Join(t, ",") = index_key

RECURSIVE rebuild_indexes(_, _, _, _, _)
\* the loop goes on after a build_index that returned r without an exception
rebuild_rest(keys, d, h, idx_ok, r) ==
    IF r.err # "none" THEN r
    ELSE rebuild_indexes(Tail(keys), d, h, r.indexes, idx_ok)

\* for index_key in self.indexes: build_index(...), up to the first exception
rebuild_indexes(keys, d, h, idxs, idx_ok) ==
    IF Len(keys) = 0 THEN [indexes |-> idxs, err |-> "none"]
    ELSE rebuild_rest(keys, d, h, idx_ok,
                      build_index(split_key(keys[1]), d, h, idxs, idx_ok))

----------------------------------------------------------------------------
(* The store: the mutable state a Collection method works on, passed through  *)
(* the methods as a record s; e holds what a call reads from outside:         *)
(* e.now, e.schema, e.idx_ok (save_index_to_file succeeds) and e.store_ok     *)
(* (the persistence backend answers load and save requests).  A method        *)
(* yields [s, err, ret]: the store it leaves, the exception it raises         *)
(* ("none" if it returns) and its return value.  Where a method goes on       *)
(* after a call, the rest of its body is an operator of the call's outcome.   *)

\* the records of an ordered dict of references, by value
deref(d, h) == [keys |-> d.keys, map |-> [id \in DOMAIN d.map |-> h[d.map[id]]]]

RECURSIVE alloc_all(_, _, _, _)
\* json.loads builds a fresh dict for every record of the file
alloc_all(keys, src, d, h) ==
    IF Len(keys) = 0 THEN [data |-> d, heap |-> h]
    ELSE alloc_all(Tail(keys), src,
                   od_set(d, keys[1], Len(h) + 1), Append(h, src.map[keys[1]]))

\* self.data = ...; self.data_loaded = True
set_loaded(s, a) ==
    [s |-> [s EXCEPT !.data = a.data, !.heap = a.heap, !.data_loaded = TRUE],
     err |-> "none"]

\* load_data: load_collection_data on first use
load_data(s, e) ==
    IF s.data_loaded THEN [s |-> s, err |-> "none"]
    ELSE IF ~e.store_ok THEN [s |-> s, err |-> "CollectionError"]
    ELSE set_loaded(s, alloc_all(s.persisted.data.keys, s.persisted.data,
                                 od_empty, s.heap))

\* save_to_file as it would be if it wrote the records database.json holds
\* already
save_to_file_stale(s, e) ==
    [schema  |-> e.schema,
     data    |-> s.persisted.data,
     indexes |-> s.indexes]

\* the db_state save_to_file writes
save_to_file(s, e) ==
    [schema  |-> e.schema,
     data    |-> IF s.data_loaded THEN deref(s.data, s.heap) ELSE s.persisted.data,
     indexes |-> s.indexes]

debounce_save(s, e) ==
    IF e.now - s.last_save_time >= save_interval
    THEN IF e.store_ok
         THEN [s |-> [s EXCEPT !.persisted = save_to_file(s, e),
                               !.last_save_time = e.now,
                               !.cache = EmptyDict],
               err |-> "none"]
         ELSE [s |-> s, err |-> "DatabaseError"]
    ELSE [s |-> s, err |-> "none"]

\* record["age"] = str(float(record["age"])); every other field str(value)
normalize(record) ==
    [f \in DOMAIN record |-> IF f = "age" THEN StrFloat(record[f]) ELSE record[f]]

\* self.db.debounce_save() once the loop over the indexes returned ri
save_rebuilt(s, e, ri) ==
    IF ri.err # "none" THEN [s |-> [s EXCEPT !.indexes = ri.indexes], err |-> ri.err]
    ELSE debounce_save([s EXCEPT !.indexes = ri.indexes], e)

\* the rebuild of every index and the save that end insert, update and delete
rebuild_and_save(s, e) ==
    save_rebuilt(s, e,
        rebuild_indexes(s.indexes.keys, s.data, s.heap, s.indexes, e.idx_ok))

\* self.data[key] = record
insert_put(s, key, rec) ==
    IF "age" \in DOMAIN rec /\ ~IsFloat(rec["age"])
    THEN [s |-> s, err |-> "ValidationError", ret |-> ""]
    ELSE [s |-> [s EXCEPT !.heap = Append(@, normalize(rec)),
                          !.data = od_set(@, key, Len(s.heap) + 1)],
          err |-> "none", ret |-> key]

\* key = str(len(self.data) + 1); record["_id"], record["created_at"]
insert_keyed(s, e, key, record) ==
    insert_put(s, key,
        dict_set(dict_set(record, "_id", key), "created_at", current_time(e.now)))

\* insert after load_data returned l
insert_loaded(l, e, record) ==
    IF l.err # "none" THEN [s |-> l.s, err |-> l.err, ret |-> ""]
    ELSE IF ~validate_record(record, e.schema)
    THEN [s |-> l.s, err |-> "ValidationError", ret |-> ""]
    ELSE insert_keyed(l.s, e, ToString(Len(l.s.data.keys) + 1), record)

\* insert up to self.data[key] = record
insert_write(s, e, record) == insert_loaded(load_data(s, e), e, record)

\* except IndexError: del self.data[key]
insert_undo(r, key) ==
    IF r.err = "IndexError"
    THEN [s |-> [r.s EXCEPT !.data = od_del(@, key)], err |-> "IndexError", ret |-> ""]
    ELSE [s |-> r.s, err |-> r.err, ret |-> key]

\* insert from the index rebuild on
insert_finish(s, e, key) == insert_undo(rebuild_and_save(s, e), key)

insert_written(w, e) ==
    IF w.err # "none" THEN w ELSE insert_finish(w.s, e, w.ret)

insert(s, e, record) == insert_written(insert_write(s, e, record), e)

\* the payload checks update makes for a matching record
payload_ok(update_data) ==
    /\ "_id" \notin DOMAIN update_data
    /\ "created_at" \notin DOMAIN update_data
    /\ ("age" \in DOMAIN update_data => IsFloat(update_data["age"]))

\* record.update(update_data); record["updated_at"] = self.current_time()
updated(record, e, update_data) ==
    dict_set(dict_update(record, normalize(update_data)),
             "updated_at", current_time(e.now))

RECURSIVE update_loop(_, _, _, _, _, _)
\* update_one as it would be if the loop over the payload assigned each field
\* to the record before it looked at the next one
update_one_fieldwise(keys, s, e, operations, update_data, count, ref) ==
    IF match_query_raises(s.heap[ref], operations, TRUE)
    THEN [s |-> s, err |-> "ValidationError", ret |-> count]
    ELSE IF ~match_query(s.heap[ref], operations, TRUE, e.now)
    THEN update_loop(Tail(keys), s, e, operations, update_data, count)
    ELSE IF ~payload_ok(update_data)
    THEN [s |-> [s EXCEPT !.heap[ref] =
                    dict_update(@, [f \in DOMAIN update_data \ {"_id", "created_at", "age"}
                                      |-> update_data[f]])],
          err |-> "ValidationError", ret |-> count]
    ELSE update_loop(Tail(keys),
                     [s EXCEPT !.heap[ref] = updated(@, e, update_data)],
                     e, operations, update_data, count + 1)

\* the body of update's loop for the record at ref
update_one(keys, s, e, operations, update_data, count, ref) ==
    IF match_query_raises(s.heap[ref], operations, TRUE)
    THEN [s |-> s, err |-> "ValidationError", ret |-> count]
    ELSE IF ~match_query(s.heap[ref], operations, TRUE, e.now)
    THEN update_loop(Tail(keys), s, e, operations, update_data, count)
    ELSE IF ~payload_ok(update_data)
    THEN [s |-> s, err |-> "ValidationError", ret |-> count]
    ELSE update_loop(Tail(keys),
                     [s EXCEPT !.heap[ref] = updated(@, e, update_data)],
                     e, operations, update_data, count + 1)

\* for key, record in self.data.items(): ..., up to the first exception
update_loop(keys, s, e, operations, update_data, count) ==
    IF Len(keys) = 0 THEN [s |-> s, err |-> "none", ret |-> count]
    ELSE update_one(keys, s, e, operations, update_data, count, s.data.map[keys[1]])

update_loaded(l, e, operations, update_data) ==
    IF l.err # "none" THEN [s |-> l.s, err |-> l.err, ret |-> 0]
    ELSE update_loop(l.s.data.keys, l.s, e, operations, update_data, 0)

\* update up to the end of its loop
update_write(s, e, operations, update_data) ==
    update_loaded(load_data(s, e), e, operations, update_data)

\* the outcome of update or delete once the rebuild and save returned r
counted(r, count) == [s |-> r.s, err |-> r.err, ret |-> count]

\* if count > 0: rebuild the indexes and save; return count
write_finish(s, e, count) ==
    IF count = 0 THEN [s |-> s, err |-> "none", ret |-> 0]
    ELSE counted(rebuild_and_save(s, e), count)

write_written(w, e) ==
    IF w.err # "none" THEN w ELSE write_finish(w.s, e, w.ret)

update(s, e, operations, update_data) ==
    write_written(update_write(s, e, operations, update_data), e)

\* for key in to_delete: del self.data[key]
delete_keys(s, to_delete) ==
    [s |-> [s EXCEPT !.data =
              [keys |-> SelectSeq(s.data.keys, LAMBDA id : id \notin to_delete),
               map  |-> [id \in (DOMAIN s.data.map) \ to_delete |-> s.data.map[id]]]],
     err |-> "none", ret |-> Cardinality(to_delete)]

delete_loaded(l, e, query) ==
    IF l.err # "none" THEN [s |-> l.s, err |-> l.err, ret |-> 0]
    ELSE IF \E id \in DOMAIN l.s.data.map :
               match_query_raises(l.s.heap[l.s.data.map[id]], query, TRUE)
    THEN [s |-> l.s, err |-> "ValidationError", ret |-> 0]
    ELSE delete_keys(l.s,
            {id \in DOMAIN l.s.data.map :
                match_query(l.s.heap[l.s.data.map[id]], query, TRUE, e.now)})

\* delete up to the end of its del loop
delete_write(s, e, query) == delete_loaded(load_data(s, e), e, query)

delete(s, e, query) == write_written(delete_write(s, e, query), e)

\* self.db.debounce_save() once build_index returned b
index_built(s, e, b) ==
    IF b.err # "none" THEN [s |-> [s EXCEPT !.indexes = b.indexes], err |-> b.err]
    ELSE debounce_save([s EXCEPT !.indexes = b.indexes], e)

create_index_loaded(l, e, fields) ==
    IF l.err # "none" THEN [s |-> l.s, err |-> l.err]
    ELSE index_built(l.s, e,
            build_index(fields, l.s.data, l.s.heap, l.s.indexes, e.idx_ok))

create_index(s, e, fields) ==
    IF Len(fields) = 0 \/ \E i \in 1..Len(fields) : fields[i] \in ReservedFields
    THEN [s |-> s, err |-> "ValidationError"]
    ELSE create_index_loaded(load_data(s, e), e, fields)

\* a row of a result list: a reference to a record dict of the collection, or
\* a dict built for the result
RefRow(ref) == [ref |-> ref]

ValRow(v) == [val |-> v]

----------------------------------------------------------------------------
(* Collection.aggregate_query.  A number is held as the fraction n/d in      *)
(* lowest terms and None as Null; the queries of the model carry no SORT BY. *)

Null == [none |-> TRUE]

RECURSIVE gcd(_, _)
gcd(a, b) == IF b = 0 THEN a ELSE gcd(b, a % b)

\* the float a / b
Num(a, b) == [n |-> a \div gcd(a, b), d |-> b \div gcd(a, b)]

\* output_field without its prefix avg_, sum_, min_ or max_, over the output
\* fields the model uses
PrefixPairs ==
    { <<"avg_age", "age">>, <<"sum_age", "age">>, <<"min_age", "age">>,
      <<"max_age", "age">> }

actual_field(output_field) ==
    IF \E p \in PrefixPairs : p[1] = output_field
    THEN (CHOOSE p \in PrefixPairs : p[1] = output_field)[2]
    ELSE output_field

\* values: float(str(value).strip()) of the records that hold the field with
\* a numeric value
numeric_values(records, field) ==
    LET numeric == SelectSeq(records, LAMBDA r :
                       field \in DOMAIN r /\ IsFloat(Strip(r[field])))
    IN  [i \in 1..Len(numeric) |-> Float(Strip(numeric[i][field]))]

RECURSIVE sum(_)
sum(values) == IF Len(values) = 0 THEN 0 ELSE values[1] + sum(Tail(values))

min(values) == CHOOSE m \in Range(values) : \A v \in Range(values) : m <= v

max(values) == CHOOSE m \in Range(values) : \A v \in Range(values) : m >= v

\* aggregate_value as it would be if $count counted the numeric values
aggregate_value_numeric(op, records, values) ==
    IF op = "$count" THEN Num(Len(values), 1)
    ELSE IF Len(values) > 0
    THEN CASE op = "$avg" -> Num(sum(values), Len(values))
           [] op = "$sum" -> Num(sum(values), 1)
           [] op = "$min" -> Num(min(values), 1)
           [] op = "$max" -> Num(max(values), 1)
    ELSE IF op \in {"$avg", "$min", "$max"} THEN Null ELSE Num(0, 1)

\* result[output_field] for the aggregate operator op
aggregate_value(op, records, values) ==
    IF op = "$count" THEN Num(Len(records), 1)
    ELSE IF Len(values) > 0
    THEN CASE op = "$avg" -> Num(sum(values), Len(values))
           [] op = "$sum" -> Num(sum(values), 1)
           [] op = "$min" -> Num(min(values), 1)
           [] op = "$max" -> Num(max(values), 1)
    ELSE IF op \in {"$avg", "$min", "$max"} THEN Null ELSE Num(0, 1)

\* result: the dict start with one entry for every output field
aggregate_row(aggregate, records, start) ==
    [f \in DOMAIN aggregate |->
        aggregate_value(aggregate[f], records,
                        numeric_values(records, actual_field(f)))] @@ start

\* group_key as it would be if the value were trimmed
group_key_stripped(record, group_by) ==
    IF group_by \in DOMAIN record THEN Strip(record[group_by]) ELSE "null"

\* record.get(group_by, "null")
group_key(record, group_by) ==
    IF group_by \in DOMAIN record THEN record[group_by] ELSE "null"

\* the keys of groups, in the order the loop over the records meets them
group_keys(records, group_by) ==
    LET first == SelectSeq([i \in 1..Len(records) |-> i], LAMBDA i :
                     \A j \in 1..(i - 1) :
                        group_key(records[j], group_by)
                            # group_key(records[i], group_by))
    IN  [n \in 1..Len(first) |-> group_key(records[first[n]], group_by)]

\* results for the matched records, one row for every group or one row
aggregate_rows(aggregate, records, group_by) ==
    IF group_by # ""
    THEN [n \in 1..Len(group_keys(records, group_by)) |->
            ValRow(aggregate_row(aggregate,
                       SelectSeq(records, LAMBDA r :
                           group_key(r, group_by) = group_keys(records, group_by)[n]),
                       [group |-> group_keys(records, group_by)[n]]))]
    ELSE <<ValRow(aggregate_row(aggregate, records, EmptyDict))>>

\* the records that match the conditions, in the order of the record map
matched_records(s, e, conditions) ==
    LET ids == SelectSeq(s.data.keys, LAMBDA id :
                   match_query(s.heap[s.data.map[id]], conditions, TRUE, e.now))
    IN  [i \in 1..Len(ids) |-> s.heap[s.data.map[ids[i]]]]

\* aggregate_query once load_data returned l: match_query can raise, and so
\* does a reserved source field in the loop over the output fields, which
\* the grouped branch runs for every group
aggregate_loaded(l, e, aggregate, conditions, group_by) ==
    IF l.err # "none" THEN [s |-> l.s, err |-> l.err, ret |-> <<>>]
    ELSE IF \/ \E id \in DOMAIN l.s.data.map :
                 match_query_raises(l.s.heap[l.s.data.map[id]], conditions, TRUE)
            \/ /\ \E f \in DOMAIN aggregate : actual_field(f) \in ReservedFields
               /\ (group_by = "" \/ Len(matched_records(l.s, e, conditions)) > 0)
    THEN [s |-> l.s, err |-> "ValidationError", ret |-> <<>>]
    ELSE [s |-> l.s, err |-> "none",
          ret |-> aggregate_rows(aggregate, matched_records(l.s, e, conditions),
                                 group_by)]

aggregate_query(s, e, aggregate, conditions, group_by) ==
    IF group_by \in ReservedFields THEN [s |-> s, err |-> "ValidationError", ret |-> <<>>]
    ELSE aggregate_loaded(load_data(s, e), e, aggregate, conditions, group_by)

----------------------------------------------------------------------------
(* Collection.join_query.  Another collection of the database is held as     *)
(* [data_loaded, file]: the queries of the model never write to it, so its   *)
(* record map, once loaded, is the one database.json holds for it.           *)

\* record.get(field): None when the record lacks the field
get(record, field) == IF field \in DOMAIN record THEN [v |-> record[field]] ELSE Null

\* {**record1, **{f"{name}_{k}": v for k, v in record2.items()}}
joined_record(record1, name, record2) ==
    [k \in {name \o "_" \o f : f \in DOMAIN record2} |->
        record2[CHOOSE f \in DOMAIN record2 : name \o "_" \o f = k]] @@ record1

\* the (left, right) pairs of the two loops, in the order the loops meet
\* them: left and right are sequences of record dicts
loop_pairs(left, right) ==
    [k \in 1..(Len(left) * Len(right)) |->
        <<left[((k - 1) \div Len(right)) + 1], right[((k - 1) % Len(right)) + 1]>>]

\* the unexpired records of another collection, in the order of its file
unexpired(other, e) ==
    LET ids == SelectSeq(other.file.keys, LAMBDA id :
                   match_query(other.file.map[id], EmptyDict, TRUE, e.now))
    IN  [i \in 1..Len(ids) |-> other.file.map[ids[i]]]

\* results of the two loops
join_rows(left, right, name, on) ==
    LET pairs == SelectSeq(loop_pairs(left, right), LAMBDA p :
                     get(p[1], on[1]) = get(p[2], on[2]))
    IN  [i \in 1..Len(pairs) |-> ValRow(joined_record(pairs[i][1], name, pairs[i][2]))]

\* field1 in [...] or field2 in [...]
on_reserved(on) == on[1] \in ReservedFields \/ on[2] \in ReservedFields

\* join_query once both collections are loaded
join_both(s, e, join, conditions) ==
    IF \/ on_reserved(join.on)
       \/ \E id \in DOMAIN s.data.map :
             match_query_raises(s.heap[s.data.map[id]], conditions, TRUE)
       \/ /\ Len(matched_records(s, e, conditions)) > 0
          /\ \E id \in DOMAIN s.others[join.collection].file.map :
                match_query_raises(s.others[join.collection].file.map[id],
                                   EmptyDict, TRUE)
    THEN [s |-> s, err |-> "ValidationError", ret |-> <<>>]
    ELSE [s |-> s, err |-> "none",
          ret |-> join_rows(matched_records(s, e, conditions),
                            unexpired(s.others[join.collection], e),
                            join.collection, join.on)]

\* join_loaded as it would be if an unknown collection joined with nothing
join_loaded_empty(l, e, join, conditions) ==
    IF l.err # "none" THEN [s |-> l.s, err |-> l.err, ret |-> <<>>]
    ELSE IF join.collection \notin DOMAIN l.s.others
    THEN [s |-> l.s, err |-> "none", ret |-> <<>>]
    ELSE IF l.s.others[join.collection].data_loaded
    THEN join_both(l.s, e, join, conditions)
    ELSE IF ~e.store_ok THEN [s |-> l.s, err |-> "CollectionError", ret |-> <<>>]
    ELSE join_both([l.s EXCEPT !.others[join.collection].data_loaded = TRUE],
                   e, join, conditions)

\* join_query once load_data returned l: the other collection is looked up
\* and loaded if it is not
join_loaded(l, e, join, conditions) ==
    IF l.err # "none" THEN [s |-> l.s, err |-> l.err, ret |-> <<>>]
    ELSE IF join.collection \notin DOMAIN l.s.others
    THEN [s |-> l.s, err |-> "CollectionError", ret |-> <<>>]
    ELSE IF l.s.others[join.collection].data_loaded
    THEN join_both(l.s, e, join, conditions)
    ELSE IF ~e.store_ok THEN [s |-> l.s, err |-> "CollectionError", ret |-> <<>>]
    ELSE join_both([l.s EXCEPT !.others[join.collection].data_loaded = TRUE],
                   e, join, conditions)

join_query(s, e, join, conditions) ==
    join_loaded(load_data(s, e), e, join, conditions)

----------------------------------------------------------------------------
(* Transaction *)

\* Transaction(collection): dict.copy() copies the maps, not the record dicts
Transaction(s) ==
    [original_data    |-> IF s.data_loaded THEN s.data ELSE od_empty,
     original_indexes |-> s.indexes,
     operations       |-> <<>>]

\* tx_shape_ok as it would be if an empty condition were accepted
tx_shape_data_only(op) == op.type = "DELETE" \/ DOMAIN op.data # {}

\* Transaction.insert / update / delete: FALSE stands for ValidationError
tx_shape_ok(op) ==
    CASE op.type = "INSERT" -> DOMAIN op.data # {}
      [] op.type = "UPDATE" -> DOMAIN op.conditions # {} /\ DOMAIN op.data # {}
      [] op.type = "DELETE" -> DOMAIN op.conditions # {}

\* Transaction.insert / update / delete on the transaction t: the op is
\* appended to self.operations, or a ValidationError is raised
tx_append(t, op) ==
    IF tx_shape_ok(op)
    THEN [t |-> [t EXCEPT !.operations = Append(@, op)], err |-> "none"]
    ELSE [t |-> t, err |-> "ValidationError"]

\* apply_op as it would be if a buffered update were dropped
apply_op_no_update(s, e, op) ==
    CASE op.type = "INSERT" -> insert(s, e, op.data)
      [] op.type = "UPDATE" -> [s |-> s, err |-> "none", ret |-> 0]
      [] op.type = "DELETE" -> delete(s, e, op.conditions)

\* the Collection method commit calls for one buffered op
apply_op(s, e, op) ==
    CASE op.type = "INSERT" -> insert(s, e, op.data)
      [] op.type = "UPDATE" -> update(s, e, op.conditions, op.data)
      [] op.type = "DELETE" -> delete(s, e, op.conditions)

RECURSIVE replay(_, _, _, _)
\* the loop as it would be if it went on after an op that raised
replay_rest_all(ops, e, n, r) ==
    replay(Tail(ops), r.s, e, IF r.err # "none" THEN n ELSE n + 1)

\* the loop goes on after an op that returned r
replay_rest(ops, e, n, r) ==
    IF r.err # "none" THEN [s |-> r.s, err |-> r.err, applied |-> n]
    ELSE replay(Tail(ops), r.s, e, n + 1)

\* for op in self.operations: ..., up to the first exception; n counts the
\* ops that returned
replay(ops, s, e, n) ==
    IF Len(ops) = 0 THEN [s |-> s, err |-> "none", applied |-> n]
    ELSE replay_rest(ops, e, n, apply_op(s, e, ops[1]))

\* except Exception as e: raise TransactionError(...)
rolled_back(r) ==
    [s |-> r.s, err |-> IF r.err = "none" THEN "none" ELSE "TransactionError"]

\* rollback as it would be if the save were requested before the snapshot is
\* assigned
rollback_saved_first(s, e, t) ==
    IF debounce_save(s, e).err # "none" THEN [s |-> s, err |-> "TransactionError"]
    ELSE rolled_back(debounce_save([s EXCEPT !.data = t.original_data,
                                             !.indexes = t.original_indexes], e))

rollback(s, e, t) ==
    rolled_back(debounce_save([s EXCEPT !.data = t.original_data,
                                        !.indexes = t.original_indexes], e))

\* commit's except clause: rb is what self.rollback() did
commit_failed(rb, cause, applied) ==
    [s |-> rb.s, err |-> "TransactionError", cause |-> cause, rb_err |-> rb.err,
     applied |-> applied]

\* commit after its last statement, self.collection.db.debounce_save()
commit_saved(sv, e, t, applied) ==
    IF sv.err = "none"
    THEN [s |-> sv.s, err |-> "none", cause |-> "none", rb_err |-> "none",
          applied |-> applied]
    ELSE commit_failed(rollback(sv.s, e, t), sv.err, applied)

\* commit as it would be if an op that raised were reported without a rollback
commit_replayed_raw(r, e, t) ==
    IF r.err = "none" THEN commit_saved(debounce_save(r.s, e), e, t, r.applied)
    ELSE [s |-> r.s, err |-> r.err, cause |-> r.err, rb_err |-> "none",
          applied |-> r.applied]

\* commit after the loop over the buffered ops
commit_replayed(r, e, t) ==
    IF r.err = "none" THEN commit_saved(debounce_save(r.s, e), e, t, r.applied)
    ELSE commit_failed(rollback(r.s, e, t), r.err, r.applied)

\* commit: cause is the exception that made it fail, rb_err the outcome of
\* the rollback it ran, applied the number of ops that returned
commit(s, e, t) == commit_replayed(replay(t.operations, s, e, 0), e, t)

----------------------------------------------------------------------------
(* Query parser.  A query text is parsed by regular expressions; the model   *)
(* holds, for each text it uses, the Query that parse_my_query builds from   *)
(* it (perr: the exception it raises instead).                               *)

\* Query(): the fields as the constructor leaves them
Query ==
    [perr |-> "none", action |-> "", conditions |-> EmptyDict, data |-> EmptyDict,
     index_field |-> <<>>, transact_ops |-> <<>>, filter |-> [type |-> "none"],
     aggregate |-> EmptyDict, group_by |-> "",
     join |-> [collection |-> "", on |-> <<"", "">>]]

\* a quoted literal in a condition
StrCond(v) == [kind |-> "str", val |-> v]

\* a condition that is a float; text is its str()
NumCond(text) == [kind |-> "num", text |-> text]

\* parse_filter: the first field operator value of the FILTER text
CompareFilter(f, o, v) == [type |-> "compare", field |-> f, operator |-> o, value |-> v]

TxOp(ty, c, d) == [type |-> ty, conditions |-> c, data |-> d]

ParseTable ==
    { [text |-> "ADD DATA (name='John')",
       action |-> "INSERT", data |-> [name |-> "John"]] @@ Query,
      [text |-> "ADD DATA (updated_at='x')",
       action |-> "INSERT", data |-> [updated_at |-> "x"]] @@ Query,
      [text |-> "FETCH FILTER (name='John')",
       action |-> "SELECT", conditions |-> [name |-> StrCond("John")],
       filter |-> CompareFilter("name", "=", StrCond("John"))] @@ Query,
      [text |-> "MODIFY FILTER (name='John') WITH (name='Bob')",
       action |-> "UPDATE", conditions |-> [name |-> StrCond("John")],
       data |-> [name |-> "Bob"]] @@ Query,
      [text |-> "MODIFY FILTER (name='John') WITH (zip='1')",
       action |-> "UPDATE", conditions |-> [name |-> StrCond("John")],
       data |-> [zip |-> "1"]] @@ Query,
      [text |-> "MODIFY FILTER (name='John') WITH (name='Bob', _id='9')",
       action |-> "UPDATE", conditions |-> [name |-> StrCond("John")],
       data |-> [name |-> "Bob", _id |-> "9"]] @@ Query,
      [text |-> "MODIFY FILTER (name='John') WITH (name='Bob', age='x')",
       action |-> "UPDATE", conditions |-> [name |-> StrCond("John")],
       data |-> [name |-> "Bob", age |-> "x"]] @@ Query,
      [text |-> "MODIFY FILTER (name='John') WITH (_id='9')",
       action |-> "UPDATE", conditions |-> [name |-> StrCond("John")],
       data |-> [x \in {"_id"} |-> "9"]] @@ Query,
      [text |-> "REMOVE FILTER (name='John')",
       action |-> "DELETE", conditions |-> [name |-> StrCond("John")]] @@ Query,
      [text |-> "INDEX FIELD age,name",
       action |-> "INDEX", index_field |-> <<"age", "name">>] @@ Query,
      [text |-> "INDEX FIELD name",
       action |-> "INDEX", index_field |-> <<"name">>] @@ Query,
      [text |-> "TRANSACT OPS (MODIFY FILTER (name='John') WITH (name='Bob'); ADD DATA (_id='9'))",
       action |-> "TRANSACT",
       transact_ops |->
         << TxOp("UPDATE", [name |-> StrCond("John")], [name |-> "Bob"]),
            TxOp("INSERT", EmptyDict, [x \in {"_id"} |-> "9"]) >>] @@ Query,
      [text |-> "TRANSACT OPS (ADD DATA (name='John'); REMOVE FILTER (name='Bob'))",
       action |-> "TRANSACT",
       transact_ops |->
         << TxOp("INSERT", EmptyDict, [name |-> "John"]),
            TxOp("DELETE", [name |-> StrCond("Bob")], EmptyDict) >>] @@ Query,
      [text |-> "TRANSACT OPS (ADD DATA (name='John'); MODIFY FILTER (name='John') WITH (name='Bob'))",
       action |-> "TRANSACT",
       transact_ops |->
         << TxOp("INSERT", EmptyDict, [name |-> "John"]),
            TxOp("UPDATE", [name |-> StrCond("John")], [name |-> "Bob"]) >>] @@ Query,
      [text |-> "TRANSACT OPS (ADD DATA (_id='9'); MODIFY FILTER (name='John') WITH (name='Bob'))",
       action |-> "TRANSACT",
       transact_ops |->
         << TxOp("INSERT", EmptyDict, [x \in {"_id"} |-> "9"]),
            TxOp("UPDATE", [name |-> StrCond("John")], [name |-> "Bob"]) >>] @@ Query,
      [text |-> "TRANSACT OPS (ADD DATA (name='John'); ADD DATA (_id='9'); REMOVE FILTER (name='John'))",
       action |-> "TRANSACT",
       transact_ops |->
         << TxOp("INSERT", EmptyDict, [name |-> "John"]),
            TxOp("INSERT", EmptyDict, [x \in {"_id"} |-> "9"]),
            TxOp("DELETE", [name |-> StrCond("John")], EmptyDict) >>] @@ Query,
      [text |-> "ADD DATA (name='John', ttl=1)",
       action |-> "INSERT", data |-> [name |-> "John", ttl |-> "1"]] @@ Query,
      [text |-> "FETCH", action |-> "SELECT"] @@ Query,
      [text |-> "ADD DATA (name='John', age=30)",
       action |-> "INSERT", data |-> [name |-> "John", age |-> "30"]] @@ Query,
      [text |-> "FETCH FILTER (name='John', age='30.0')",
       action |-> "SELECT",
       conditions |-> [name |-> StrCond("John"), age |-> StrCond("30.0")],
       filter |-> CompareFilter("name", "=", StrCond("John"))] @@ Query,
      [text |-> "ADD DATA (name='John ')",
       action |-> "INSERT", data |-> [name |-> "John "]] @@ Query,
      \* parse_conditions: a bare numeric literal becomes a float
      [text |-> "FETCH FILTER (age=25)",
       action |-> "SELECT", conditions |-> [age |-> NumCond("25.0")],
       filter |-> CompareFilter("age", "=", NumCond("25.0"))] @@ Query,
      \* parse_filter: its pattern accepts a quoted or a numeric value only
      [text |-> "FETCH FILTER (age={$gte:18})", perr |-> "QueryError"] @@ Query,
      \* "AGGREGATE \((.+)\)...": the greedy group runs to the last ")" of the
      \* text, so a FILTER clause ends up in the group and q.conditions stays {}
      [text |-> "AGGREGATE (m=$max) FILTER (grade='Z')",
       action |-> "AGGREGATE", aggregate |-> [m |-> "$max"]] @@ Query,
      [text |-> "AGGREGATE (max_age=$max, sum_age=$sum) FILTER (name='Z')",
       action |-> "AGGREGATE",
       aggregate |-> [max_age |-> "$max", sum_age |-> "$sum"]] @@ Query,
      [text |-> "AGGREGATE (min_age=$min, avg_age=$avg) GROUP BY name",
       action |-> "AGGREGATE", group_by |-> "name",
       aggregate |-> [min_age |-> "$min", avg_age |-> "$avg"]] @@ Query,
      [text |-> "AGGREGATE (n=$count, sum_age=$sum) GROUP BY name",
       action |-> "AGGREGATE", group_by |-> "name",
       aggregate |-> [n |-> "$count", sum_age |-> "$sum"]] @@ Query,
      [text |-> "ADD DATA (name='John', cid='1')",
       action |-> "INSERT", data |-> [name |-> "John", cid |-> "1"]] @@ Query,
      [text |-> "ADD DATA (name='Bob')",
       action |-> "INSERT", data |-> [name |-> "Bob"]] @@ Query,
      \* q.join: on holds the two fields that join["on"].split("=") gives
      [text |-> "JOIN course ON cid=cid",
       action |-> "JOIN", join |-> [collection |-> "course", on |-> <<"cid", "cid">>]]
        @@ Query,
      [text |-> "JOIN course ON cid=cid FILTER (name='John')",
       action |-> "JOIN", conditions |-> [name |-> StrCond("John")],
       join |-> [collection |-> "course", on |-> <<"cid", "cid">>]] @@ Query,
      [text |-> "JOIN nowhere ON cid=cid",
       action |-> "JOIN", join |-> [collection |-> "nowhere", on |-> <<"cid", "cid">>]]
        @@ Query,
      \* no pattern of parse_my_query matches: QueryError
      [text |-> "BOGUS", perr |-> "QueryError"] @@ Query,
      \* Query.validate: '_id' is reserved in conditions
      [text |-> "REMOVE FILTER (_id='1')", perr |-> "ValidationError"] @@ Query }

parse_my_query(text) == CHOOSE q \in ParseTable : q.text = text

----------------------------------------------------------------------------
(* Collection.parse_query *)

CollectionName == "student"

\* f"{self.name}:{query_str}"
query_key(text) == CollectionName \o ":" \o text

\* the field names of the model in the order sorted() gives them
FieldOrder == <<"age", "name", "ttl", "zip">>

sorted(fields) == SelectSeq(FieldOrder, LAMBDA f : f \in fields)

\* str(condition)
cond_str(c) ==
    CASE c.kind = "str" -> c.val
      [] c.kind = "num" -> c.text
      [] OTHER -> "{}"

\* the records of ids that match, as rows, in the order of the record map
matching_rows(s, e, conditions, ids) ==
    [i \in 1..Len(SelectSeq(s.data.keys, LAMBDA id :
                     /\ id \in ids
                     /\ match_query(s.heap[s.data.map[id]], conditions, TRUE, e.now)))
       |-> RefRow(s.data.map[
             SelectSeq(s.data.keys, LAMBDA id :
                /\ id \in ids
                /\ match_query(s.heap[s.data.map[id]], conditions, TRUE, e.now))[i]])]

\* the loop of SELECT over ids once load_data returned l; a ValidationError of
\* match_query is wrapped (as QueryError) by the full scan only
select_rows(l, e, q, ids, scan) ==
    IF l.err # "none"
    THEN [s |-> l.s, err |-> l.err, cause |-> l.err, results |-> <<>>]
    ELSE IF \E id \in ids \cap DOMAIN l.s.data.map :
               match_query_raises(l.s.heap[l.s.data.map[id]], q.conditions, TRUE)
    THEN [s |-> l.s, cause |-> "ValidationError", results |-> <<>>,
          err |-> IF scan THEN "QueryError" ELSE "ValidationError"]
    ELSE [s |-> l.s, err |-> "none", cause |-> "none",
          results |-> matching_rows(l.s, e, q.conditions, ids)]

\* if not indexed: the scan of every record
full_scan(l, e, q) == select_rows(l, e, q, DOMAIN l.s.data.map, TRUE)

\* the composite index branch, for the key and value built from the conditions
select_composite(s, e, q, index_key, composite_value) ==
    IF /\ od_has(s.indexes, index_key)
       /\ composite_value \in DOMAIN s.indexes.map[index_key]
    THEN select_rows(load_data(s, e), e, q,
                     s.indexes.map[index_key][composite_value], FALSE)
    ELSE full_scan(load_data(s, e), e, q)

\* the single field index branch
select_single(s, e, q) ==
    IF /\ od_has(s.indexes, q.filter.field)
       /\ q.filter.operator = "="
       /\ q.filter.value.kind = "str"
       /\ q.filter.value.val \in DOMAIN s.indexes.map[q.filter.field]
    THEN select_rows(load_data(s, e), e, q,
                     s.indexes.map[q.filter.field][q.filter.value.val], FALSE)
    ELSE full_scan(load_data(s, e), e, q)

\* condition_fields = sorted(query.conditions.keys())
select_sorted(s, e, q, condition_fields) ==
    select_composite(s, e, q, Join(condition_fields, ","),
        Join([i \in 1..Len(condition_fields) |->
                 cond_str(q.conditions[condition_fields[i]])], "|"))

\* the SELECT branch: composite index lookup, single field index lookup, or
\* full scan
select(s, e, q) ==
    IF q.filter.type # "compare" THEN full_scan(load_data(s, e), e, q)
    ELSE IF Cardinality(DOMAIN q.conditions) > 1
    THEN select_sorted(s, e, q, sorted(DOMAIN q.conditions))
    ELSE select_single(s, e, q)

\* except (ValidationError, IndexError) as e: raise QueryError(...)
wrap(err) == IF err \in {"ValidationError", "IndexError"} THEN "QueryError" ELSE err

\* except TransactionError: tx.rollback(); raise QueryError(...)
transact_failed(rb, cause) ==
    [s |-> rb.s, cause |-> cause, results |-> <<>>,
     err |-> IF rb.err = "none" THEN "QueryError" ELSE rb.err]

\* the TRANSACT branch after tx.commit()
transact_committed(c, e, t) ==
    IF c.err = "none"
    THEN [s |-> c.s, err |-> "none", cause |-> "none",
          results |-> <<ValRow([transaction |-> "committed"])>>]
    ELSE transact_failed(rollback(c.s, e, t), c.cause)

\* the TRANSACT branch with the Transaction t built
transact_with(s, e, t) == transact_committed(commit(s, e, t), e, t)

\* the TRANSACT branch
transact(s, e, q) ==
    IF \E i \in 1..Len(q.transact_ops) : ~tx_shape_ok(q.transact_ops[i])
    THEN [s |-> s, err |-> "ValidationError", cause |-> "ValidationError",
          results |-> <<>>]
    ELSE transact_with(s, e, [Transaction(s) EXCEPT !.operations = q.transact_ops])

\* the result list a branch builds from what the Collection method returned
answered(r, row) ==
    [s |-> r.s, err |-> wrap(r.err), cause |-> r.err, results |-> <<ValRow(row)>>]

\* the AGGREGATE branch: results = self.aggregate_query(...)
aggregated(r) ==
    [s |-> r.s, err |-> wrap(r.err), cause |-> r.err, results |-> r.ret]

\* the JOIN branch: except (ValidationError, CollectionError): QueryError
joined(r) ==
    [s |-> r.s, cause |-> r.err, results |-> r.ret,
     err |-> IF r.err \in {"ValidationError", "CollectionError"}
             THEN "QueryError" ELSE r.err]

inserted(r, q) == answered(r, dict_set(q.data, "_id", r.ret))

updated_rows(r) == answered(r, [updated |-> r.ret])

deleted_rows(r) == answered(r, [deleted |-> r.ret])

\* the branch of parse_query for the parsed query q
dispatch(s, e, q) ==
    CASE q.action = "INSERT" -> inserted(insert(s, e, q.data), q)
      [] q.action = "SELECT" -> select(s, e, q)
      [] q.action = "UPDATE" -> updated_rows(update(s, e, q.conditions, q.data))
      [] q.action = "DELETE" -> deleted_rows(delete(s, e, q.conditions))
      [] q.action = "INDEX" ->
           answered(create_index(s, e, q.index_field),
                    [indexed |-> Join(q.index_field, ",")])
      [] q.action = "TRANSACT" -> transact(s, e, q)
      [] q.action = "JOIN" -> joined(join_query(s, e, q.join, q.conditions))
      [] q.action = "AGGREGATE" ->
           aggregated(aggregate_query(s, e, q.aggregate, q.conditions, q.group_by))

\* self.db.cache[query_key] = results; return
cache_results(r, text) ==
    IF r.err # "none"
    THEN [s |-> r.s, err |-> r.err, cause |-> r.cause, hit |-> FALSE, results |-> <<>>]
    ELSE [s |-> [r.s EXCEPT !.cache = dict_set(@, query_key(text), r.results)],
          err |-> "none", cause |-> "none", hit |-> FALSE, results |-> r.results]

\* parse_query as it would be if the collection were loaded before the text
\* is parsed
parse_query_loaded_first(s, e, text, q) ==
    IF q.perr # "none"
    THEN [s |-> load_data(s, e).s, err |-> q.perr, cause |-> q.perr, hit |-> FALSE,
          results |-> <<>>]
    ELSE cache_results(dispatch(s, e, q), text)

\* parse_query after parse_my_query returned q
parse_query_parsed(s, e, text, q) ==
    IF q.perr # "none"
    THEN [s |-> s, err |-> q.perr, cause |-> q.perr, hit |-> FALSE, results |-> <<>>]
    ELSE cache_results(dispatch(s, e, q), text)

\* parse_query as it would be if only a SELECT were answered from the cache
parse_query_select_cached(s, e, text) ==
    IF query_key(text) \in DOMAIN s.cache /\ parse_my_query(text).action = "SELECT"
    THEN [s |-> s, err |-> "none", cause |-> "none", hit |-> TRUE,
          results |-> s.cache[query_key(text)]]
    ELSE parse_query_parsed(s, e, text, parse_my_query(text))

\* if query_key in self.db.cache: return the cached list; else parse and run
parse_query(s, e, text) ==
    IF query_key(text) \in DOMAIN s.cache
    THEN [s |-> s, err |-> "none", cause |-> "none", hit |-> TRUE,
          results |-> s.cache[query_key(text)]]
    ELSE parse_query_parsed(s, e, text, parse_my_query(text))

----------------------------------------------------------------------------
(* The state machine of one caller: calls of parse_query, one at a time *)

\* the store as the variables hold it
Store ==
    [data |-> data, heap |-> heap, data_loaded |-> data_loaded, indexes |-> indexes,
     last_save_time |-> last_save_time, cache |-> cache, persisted |-> persisted,
     others |-> others]

Env(idx_ok, store_ok) ==
    [now |-> now, schema |-> schema, idx_ok |-> idx_ok, store_ok |-> store_ok]

\* the record dicts some variable of the store still refers to
Reachable(s, more) ==
    Range(s.data.map) \cup more \cup
    UNION { {s.cache[k][i].ref : i \in {j \in 1..Len(s.cache[k]) :
                                           "ref" \in DOMAIN s.cache[k][j]}} :
            k \in DOMAIN s.cache }

\* reference counting frees a dict nothing refers to: its slot is left empty
collect(s, more) ==
    [i \in 1..Len(s.heap) |->
        IF i \in Reachable(s, more) THEN s.heap[i] ELSE EmptyDict]

\* the record dicts the snapshots of the open transactions refer to
Snapshots(txs) == UNION { Range(txs[t].original_data.map) : t \in DOMAIN txs }

\* the store after a step, with the record dicts in roots still referred to
SetStoreWith(s, roots) ==
    /\ data' = s.data
    /\ heap' = collect(s, roots)
    /\ data_loaded' = s.data_loaded
    /\ indexes' = s.indexes
    /\ last_save_time' = s.last_save_time
    /\ cache' = s.cache
    /\ persisted' = s.persisted
    /\ others' = s.others

SetStore(s) == SetStoreWith(s, {})

\* the record dicts a call of the query can create
Allocs(text) ==
    LET q == parse_my_query(text) IN
    IF q.action = "INSERT" THEN 1
    ELSE Cardinality({i \in 1..Len(q.transact_ops) : q.transact_ops[i].type = "INSERT"})

HeapRoom(n) ==
    Len(heap) + n + (IF data_loaded THEN 0 ELSE Len(persisted.data.keys)) <= MaxRef

\* what the caller of parse_query gets and the store the call leaves
Respond(r, text) ==
    /\ SetStore(r.s)
    /\ last' = [text |-> text, action |-> parse_my_query(text).action,
                hit |-> r.hit, err |-> r.err, cause |-> r.cause,
                results |-> r.results]

\* collection.parse_query(text), with the persistence backend up or down
ParseQuery(text, idx_ok, store_ok) ==
    /\ HeapRoom(Allocs(text))
    /\ Respond(parse_query(Store, Env(idx_ok, store_ok), text), text)
    /\ UNCHANGED <<now, schema, lock, pc, tx>>

\* time passes
Tick ==
    /\ now < MaxTime
    /\ now' = now + 1
    /\ UNCHANGED <<schema, data, heap, data_loaded, indexes, last_save_time,
                   cache, persisted, others, last, lock, pc, tx>>

\* the schemas a collection of the model is created with
Schemas == { <<>>, <<"name">> }

\* the record the model's database.json holds at start, if any
StoredRecord == [x \in {"_id", "created_at", "name"} |->
                    CASE x = "_id" -> "1" [] x = "created_at" -> "0" [] OTHER -> "John"]

\* what database.json holds when the process starts: a collection without
\* records, or with one record
StartFiles ==
    { od_empty, od_set(od_empty, "1", StoredRecord) }

\* MyDB() after load_metadata: collections and indexes known, data not loaded;
\* cols: the other collections database.json can hold
InitDb(schemas, files, cols) ==
    /\ now = save_interval
    /\ schema \in schemas
    /\ data = od_empty
    /\ heap = <<>>
    /\ data_loaded = FALSE
    /\ indexes = od_empty
    /\ last_save_time = 0
    /\ cache = EmptyDict
    /\ \E f \in files :
          persisted = [schema |-> schema, data |-> f, indexes |-> od_empty]
    /\ last = [text |-> "", action |-> "", hit |-> FALSE, err |-> "none",
               cause |-> "none", results |-> <<>>]
    /\ lock = "none"
    /\ pc = <<>>
    /\ tx = <<>>
    /\ others \in cols

\* a database whose only collection is the one queried
InitWith(schemas, files) == InitDb(schemas, files, {<<>>})

\* calls of parse_query with the texts of Q
Calls(Q) ==
    \E text \in Q, idx_ok \in BOOLEAN, store_ok \in BOOLEAN :
        ParseQuery(text, idx_ok, store_ok)

----------------------------------------------------------------------------
(* Specifications: one caller, submitting the queries of a given set *)

Queries ==
    { "ADD DATA (name='John')", "FETCH FILTER (name='John')",
      "MODIFY FILTER (name='John') WITH (name='Bob')", "REMOVE FILTER (name='John')" }

Init == InitWith(Schemas, StartFiles)

Next == Calls(Queries) \/ Tick

Spec == Init /\ [][Next]_vars

\* index maintenance: inserts (two of them take the same id after a delete),
\* an index, an update and a delete
IndexQueries ==
    { "ADD DATA (name='John')", "ADD DATA (updated_at='x')", "INDEX FIELD name",
      "MODIFY FILTER (name='John') WITH (name='Bob')", "REMOVE FILTER (name='John')" }

InitIndex == InitWith({<<>>}, {od_empty})

NextIndex == Calls(IndexQueries) \/ Tick

SpecIndex == InitIndex /\ [][NextIndex]_vars

\* transactions: one that fails at its second op, one that can commit
TxQueries ==
    { "ADD DATA (name='John')",
      "TRANSACT OPS (MODIFY FILTER (name='John') WITH (name='Bob'); ADD DATA (_id='9'))",
      "TRANSACT OPS (ADD DATA (name='John'); REMOVE FILTER (name='Bob'))" }

InitTx == InitWith({<<>>}, StartFiles)

NextTx == Calls(TxQueries) \/ Tick

SpecTx == InitTx /\ [][NextTx]_vars

\* payloads against a schema and reserved fields in payloads
SchemaQueries ==
    { "ADD DATA (name='John')", "ADD DATA (updated_at='x')",
      "MODIFY FILTER (name='John') WITH (zip='1')",
      "MODIFY FILTER (name='John') WITH (_id='9')" }

InitSchema == InitWith(Schemas, StartFiles)

NextSchema == Calls(SchemaQueries) \/ Tick

SpecSchema == InitSchema /\ [][NextSchema]_vars

\* queries of the actions INSERT, SELECT, DELETE, INDEX and TRANSACT, on a
\* collection that starts empty and whose database.json can be saved
CacheQueries ==
    { "ADD DATA (name='John')", "FETCH FILTER (name='John')",
      "REMOVE FILTER (name='John')", "INDEX FIELD name",
      "TRANSACT OPS (ADD DATA (name='John'); REMOVE FILTER (name='Bob'))" }

InitCache == InitWith({<<>>}, {od_empty})

\* calls of parse_query with the texts of Q while database.json can be read
\* and written
CallsUp(Q) == \E text \in Q, idx_ok \in BOOLEAN : ParseQuery(text, idx_ok, TRUE)

NextCache == CallsUp(CacheQueries) \/ Tick

SpecCache == InitCache /\ [][NextCache]_vars

\* texts that parse_my_query rejects, among queries that load the collection,
\* fill the cache and build an index
ParseQueries ==
    { "ADD DATA (name='John')", "FETCH FILTER (name='John')", "INDEX FIELD name",
      "BOGUS", "REMOVE FILTER (_id='1')" }

InitParse == InitWith({<<>>}, StartFiles)

NextParse == Calls(ParseQueries) \/ Tick

SpecParse == InitParse /\ [][NextParse]_vars

\* transactions whose first, middle or last op fails, and one whose ops
\* commit only in the order they were buffered
CommitQueries ==
    { "ADD DATA (name='John')",
      "TRANSACT OPS (ADD DATA (name='John'); MODIFY FILTER (name='John') WITH (name='Bob'))",
      "TRANSACT OPS (ADD DATA (_id='9'); MODIFY FILTER (name='John') WITH (name='Bob'))",
      "TRANSACT OPS (ADD DATA (name='John'); ADD DATA (_id='9'); REMOVE FILTER (name='John'))",
      "TRANSACT OPS (MODIFY FILTER (name='John') WITH (name='Bob'); ADD DATA (_id='9'))" }

InitCommit == InitWith({<<>>}, StartFiles)

NextCommit == Calls(CommitQueries) \/ Tick

SpecCommit == InitCommit /\ [][NextCommit]_vars

\* records with and without a ttl, read while time passes
TtlQueries ==
    { "ADD DATA (name='John', ttl=1)", "ADD DATA (name='John')", "FETCH",
      "FETCH FILTER (name='John')" }

InitTtl == InitWith({<<>>}, StartFiles)

NextTtl == Calls(TtlQueries) \/ Tick

SpecTtl == InitTtl /\ [][NextTtl]_vars

\* records that differ in the fields they hold, and a FETCH of two conditions
MatchQueries ==
    { "ADD DATA (name='John', age=30)", "ADD DATA (name='John', ttl=1)",
      "FETCH FILTER (name='John', age='30.0')" }

InitMatch == InitWith({<<>>}, {od_empty})

NextMatch == Calls(MatchQueries) \/ Tick

SpecMatch == InitMatch /\ [][NextMatch]_vars

\* a FETCH by equality on a field that can be indexed, over records whose
\* value of the field is stored with and without trailing whitespace
LookupQueries ==
    { "ADD DATA (name='John ')", "ADD DATA (name='John')", "INDEX FIELD name",
      "FETCH FILTER (name='John')" }

InitLookup == InitWith({<<>>}, {od_empty})

NextLookup == Calls(LookupQueries) \/ Tick

SpecLookup == InitLookup /\ [][NextLookup]_vars

\* an insert with a numeric field, a FETCH with an operator object on it,
\* and a FETCH of every record
ExampleQueries ==
    { "ADD DATA (name='John', age=30)", "FETCH FILTER (age={$gte:18})", "FETCH",
      "REMOVE FILTER (name='John')" }

InitExample == InitWith({<<>>}, {od_empty})

NextExample == Calls(ExampleQueries) \/ Tick

SpecExample == InitExample /\ [][NextExample]_vars

\* aggregates over records with and without a numeric age: with a FILTER
\* that no record meets, and grouped
AggregateQueries ==
    { "ADD DATA (name='John', age=30)", "ADD DATA (name='John ')",
      "AGGREGATE (m=$max) FILTER (grade='Z')",
      "AGGREGATE (max_age=$max, sum_age=$sum) FILTER (name='Z')",
      "AGGREGATE (min_age=$min, avg_age=$avg) GROUP BY name" }

InitAggregate == InitWith({<<>>}, {od_empty})

NextAggregate == Calls(AggregateQueries) \/ Tick

SpecAggregate == InitAggregate /\ [][NextAggregate]_vars

\* a grouped count over records with and without a numeric age, some of
\* which expire
CountQueries ==
    { "ADD DATA (name='John', age=30)", "ADD DATA (name='John ')",
      "ADD DATA (name='John', ttl=1)",
      "AGGREGATE (n=$count, sum_age=$sum) GROUP BY name" }

InitCount == InitWith({<<>>}, {od_empty})

NextCount == Calls(CountQueries) \/ Tick

SpecCount == InitCount /\ [][NextCount]_vars

\* the records database.json holds for the collection course: one with the
\* field cid, one without it, and one with cid that expires
CourseRecord(id, fields) ==
    [x \in {"_id", "created_at"} |-> IF x = "_id" THEN id ELSE "1"] @@ fields

CourseFile ==
    od_set(od_set(od_set(od_empty,
        "1", CourseRecord("1", [title |-> "Math", cid |-> "1"])),
        "2", CourseRecord("2", [title |-> "Art"])),
        "3", CourseRecord("3", [title |-> "Old", cid |-> "1", ttl |-> "1"]))

\* joins of records with and without the field cid
JoinQueries ==
    { "ADD DATA (name='John', cid='1')", "ADD DATA (name='Bob')",
      "JOIN course ON cid=cid", "JOIN course ON cid=cid FILTER (name='John')",
      "JOIN nowhere ON cid=cid" }

InitJoin ==
    InitDb({<<>>}, {od_empty},
           {[course |-> [data_loaded |-> FALSE, file |-> CourseFile]]})

NextJoin == Calls(JoinQueries) \/ Tick

SpecJoin == InitJoin /\ [][NextJoin]_vars

----------------------------------------------------------------------------
(* A caller that uses the Transaction class itself: it builds a transaction  *)
(* on the collection, buffers ops in it, and commits it or rolls it back      *)

\* the transaction the caller holds, if any
Held == "tx" \in DOMAIN tx

TxRecords == { EmptyDict, [name |-> "John"] }

TxUpdates == { EmptyDict, [name |-> "Bob"] }

TxConditions == { EmptyDict, [name |-> StrCond("John")] }

\* what the caller gets from a method of the transaction
Reply(method, op, err) ==
    [text |-> "", action |-> method, op |-> op, hit |-> FALSE, err |-> err,
     cause |-> err, results |-> <<>>]

\* tx = Transaction(collection)
TxNew ==
    /\ ~Held
    /\ tx' = [x \in {"tx"} |-> Transaction(Store)]
    /\ last' = Reply("Transaction", <<>>, "none")
    /\ UNCHANGED <<now, schema, data, heap, data_loaded, indexes, last_save_time,
                   cache, persisted, others, lock, pc>>

\* a call of tx.insert, tx.update or tx.delete returned r
Buffered(method, op, r) ==
    /\ tx' = [tx EXCEPT !["tx"] = r.t]
    /\ last' = Reply(method, op, r.err)
    /\ UNCHANGED <<now, schema, data, heap, data_loaded, indexes, last_save_time,
                   cache, persisted, others, lock, pc>>

\* a call of the method that buffers op
Buffer(method, op) ==
    /\ Held
    /\ Len(tx["tx"].operations) < MaxOps
    /\ Buffered(method, op, tx_append(tx["tx"], op))

\* tx.insert(record)
TxInsert == \E record \in TxRecords : Buffer("insert", TxOp("INSERT", EmptyDict, record))

\* tx.update(condition, update_data)
TxUpdate ==
    \E condition \in TxConditions, update_data \in TxUpdates :
        Buffer("update", TxOp("UPDATE", condition, update_data))

\* tx.delete(condition)
TxDelete ==
    \E condition \in TxConditions : Buffer("delete", TxOp("DELETE", condition, EmptyDict))

\* commit or rollback returned r; the caller drops the transaction
Finished(method, r) ==
    /\ SetStore(r.s)
    /\ tx' = <<>>
    /\ last' = Reply(method, <<>>, r.err)
    /\ UNCHANGED <<now, schema, lock, pc>>

\* tx.commit()
TxCommit ==
    /\ Held
    /\ HeapRoom(Cardinality({i \in 1..Len(tx["tx"].operations) :
                                tx["tx"].operations[i].type = "INSERT"}))
    /\ \E idx_ok \in BOOLEAN, store_ok \in BOOLEAN :
          Finished("commit", commit(Store, Env(idx_ok, store_ok), tx["tx"]))

\* tx.rollback()
TxAbandon ==
    /\ Held
    /\ \E store_ok \in BOOLEAN :
          Finished("rollback", rollback(Store, Env(TRUE, store_ok), tx["tx"]))

\* database.json holds one record
InitApi == InitWith({<<>>}, {od_set(od_empty, "1", StoredRecord)})

NextApi == TxNew \/ TxInsert \/ TxUpdate \/ TxDelete \/ TxCommit \/ TxAbandon \/ Tick

SpecApi == InitApi /\ [][NextApi]_vars

----------------------------------------------------------------------------
(* Two callers on one collection.  A step is what a caller does between two *)
(* points where the other can run: the lock is the Collection's             *)
(* threading.Lock, taken by insert, update and delete only.  database.json  *)
(* can be read and written throughout.                                      *)

Threads == {"t1", "t2"}

\* the calls each caller makes: t1 submits transactions, t2 writes directly
QueriesOf(t) ==
    IF t = "t1"
    THEN { "TRANSACT OPS (MODIFY FILTER (name='John') WITH (name='Bob'); ADD DATA (_id='9'))",
           "TRANSACT OPS (ADD DATA (name='John'); REMOVE FILTER (name='Bob'))" }
    ELSE { "ADD DATA (name='John')", "INDEX FIELD name" }

\* database.json can be read and written
Up(idx_ok) == Env(idx_ok, TRUE)

\* no Transaction object
NoTx == [original_data |-> od_empty, original_indexes |-> od_empty, operations |-> <<>>]

\* caller t is at the point `at` of the call it makes
At(t, at) == pc[t].at = at

\* the query of the call t makes
Called(t) == parse_my_query(pc[t].text)

Goto(t, at, i, ret) ==
    pc' = [pc EXCEPT ![t] = [at |-> at, text |-> pc[t].text, i |-> i, ret |-> ret]]

\* parse_query up to the branch of the action: the key is not in the cache
\* (a call whose key is there returns the cached list and changes nothing)
Call(t, text) ==
    /\ At(t, "idle")
    /\ query_key(text) \notin DOMAIN cache
    /\ pc' = [pc EXCEPT ![t] =
                [at |-> CASE parse_my_query(text).action = "INSERT" -> "insert"
                          [] parse_my_query(text).action = "INDEX" -> "create_index"
                          [] parse_my_query(text).action = "TRANSACT" -> "transact",
                 text |-> text, i |-> 0, ret |-> ""]]
    /\ UNCHANGED <<now, schema, data, heap, data_loaded, indexes, last_save_time,
                   cache, persisted, others, last, lock, tx>>

\* insert: with self.lock
InsertAcquire(t) ==
    /\ At(t, "insert")
    /\ lock = "none"
    /\ HeapRoom(1)
    /\ lock' = t
    /\ Goto(t, "insert_locked", 0, "")
    /\ UNCHANGED <<now, schema, data, heap, data_loaded, indexes, last_save_time,
                   cache, persisted, others, last, tx>>

InsertWrote(t, w) ==
    /\ SetStoreWith(w.s, Snapshots(tx))
    /\ IF w.err = "none"
       THEN Goto(t, "insert_written", 0, w.ret) /\ lock' = lock
       ELSE Goto(t, "idle", 0, "") /\ lock' = "none"
    /\ UNCHANGED <<now, schema, last, tx>>

\* insert up to self.data[key] = record
InsertWrite(t) ==
    /\ At(t, "insert_locked")
    /\ InsertWrote(t, insert_write(Store, Up(TRUE), Called(t).data))

\* the call returned r to its caller
Returned(t, r, ret, txs) ==
    /\ SetStoreWith(r.s, Snapshots(txs))
    /\ Goto(t, "idle", 0, IF r.err = "none" THEN ret ELSE "")
    /\ tx' = txs
    /\ UNCHANGED <<now, schema, last>>

\* insert from the index rebuild to the release of the lock, and the rest of
\* parse_query
InsertFinish(t, idx_ok) ==
    /\ At(t, "insert_written")
    /\ lock' = "none"
    /\ Returned(t, cache_results(inserted(insert_finish(Store, Up(idx_ok), pc[t].ret),
                                          Called(t)),
                                 pc[t].text),
                pc[t].ret, tx)

IndexLoaded(t, l) ==
    /\ SetStoreWith(l.s, Snapshots(tx))
    /\ Goto(t, IF l.err = "none" THEN "index_loaded" ELSE "idle", 0, "")
    /\ UNCHANGED <<now, schema, last, lock, tx>>

\* create_index up to load_data: no lock is taken
IndexLoad(t) ==
    /\ At(t, "create_index")
    /\ HeapRoom(0)
    /\ IndexLoaded(t, load_data(Store, Up(TRUE)))

IndexAssigned(t, b) ==
    /\ SetStoreWith([Store EXCEPT !.indexes = b.indexes], Snapshots(tx))
    /\ Goto(t, IF b.err = "none" THEN "index_built" ELSE "idle", 0, "")
    /\ UNCHANGED <<now, schema, last, lock, tx>>

\* create_index: IndexManager.build_index(fields, self.data, self.indexes)
IndexBuild(t, idx_ok) ==
    /\ At(t, "index_loaded")
    /\ IndexAssigned(t, build_index(Called(t).index_field, data, heap, indexes, idx_ok))

\* create_index: self.db.debounce_save(), and the rest of parse_query
IndexSave(t) ==
    /\ At(t, "index_built")
    /\ Returned(t, cache_results(answered(debounce_save(Store, Up(TRUE)),
                                          [indexed |-> Join(Called(t).index_field, ",")]),
                                 pc[t].text),
                "", tx)
    /\ UNCHANGED lock

\* tx = Transaction(self) and the tx.insert / tx.update / tx.delete calls
TxBegin(t) ==
    /\ At(t, "transact")
    /\ IF \E i \in 1..Len(Called(t).transact_ops) : ~tx_shape_ok(Called(t).transact_ops[i])
       THEN Goto(t, "idle", 0, "") /\ tx' = tx
       ELSE /\ Goto(t, "commit", 1, "")
            /\ tx' = [tx EXCEPT ![t] = [Transaction(Store) EXCEPT
                                          !.operations = Called(t).transact_ops]]
    /\ UNCHANGED <<now, schema, data, heap, data_loaded, indexes, last_save_time,
                   cache, persisted, others, last, lock>>

CommitOpDone(t, r) ==
    /\ SetStoreWith(r.s, Snapshots(tx))
    /\ IF r.err = "none"
       THEN Goto(t, "commit", pc[t].i + 1, "")
       ELSE Goto(t, "commit_except", pc[t].i, "")
    /\ UNCHANGED <<now, schema, last, lock, tx>>

\* commit: one buffered op, a call of insert, update or delete that takes
\* the lock and releases it
CommitOp(t, idx_ok) ==
    /\ At(t, "commit")
    /\ pc[t].i <= Len(tx[t].operations)
    /\ lock = "none"
    /\ HeapRoom(IF tx[t].operations[pc[t].i].type = "INSERT" THEN 1 ELSE 0)
    /\ CommitOpDone(t, apply_op(Store, Up(idx_ok), tx[t].operations[pc[t].i]))

TxSaved(t, sv) ==
    IF sv.err = "none"
    THEN Returned(t, cache_results([s |-> sv.s, err |-> "none", cause |-> "none",
                                    results |-> <<ValRow([transaction |-> "committed"])>>],
                                   pc[t].text),
                  "", [tx EXCEPT ![t] = NoTx])
    ELSE /\ SetStoreWith(sv.s, Snapshots(tx))
         /\ Goto(t, "commit_except", pc[t].i, "")
         /\ UNCHANGED <<now, schema, last, tx>>

\* commit: self.collection.db.debounce_save() after the last op; no lock
TxSave(t) ==
    /\ At(t, "commit")
    /\ pc[t].i > Len(tx[t].operations)
    /\ TxSaved(t, debounce_save(Store, Up(TRUE)))
    /\ UNCHANGED lock

RolledBack(t, rb, at, txs) ==
    /\ SetStoreWith(rb.s, Snapshots(txs))
    /\ Goto(t, at, 0, "")
    /\ tx' = txs
    /\ UNCHANGED <<now, schema, last, lock>>

\* commit's except clause: self.rollback(), then TransactionError; no lock
TxRollback(t) ==
    /\ At(t, "commit_except")
    /\ RolledBack(t, rollback(Store, Up(TRUE), tx[t]), "transact_except", tx)

\* parse_query's except TransactionError: tx.rollback() once more
TxRollbackAgain(t) ==
    /\ At(t, "transact_except")
    /\ RolledBack(t, rollback(Store, Up(TRUE), tx[t]), "idle", [tx EXCEPT ![t] = NoTx])

InitThreads ==
    /\ now = save_interval
    /\ schema = <<>>
    /\ data = od_empty
    /\ heap = <<>>
    /\ data_loaded = FALSE
    /\ indexes = od_empty
    /\ last_save_time = 0
    /\ cache = EmptyDict
    /\ \E f \in StartFiles :
          persisted = [schema |-> schema, data |-> f, indexes |-> od_empty]
    /\ last = [text |-> "", action |-> "", hit |-> FALSE, err |-> "none",
               cause |-> "none", results |-> <<>>]
    /\ lock = "none"
    /\ pc = [t \in Threads |-> [at |-> "idle", text |-> "", i |-> 0, ret |-> ""]]
    /\ tx = [t \in Threads |-> NoTx]
    /\ others = <<>>

NextThreads ==
    \/ \E t \in Threads : \E text \in QueriesOf(t) : Call(t, text)
    \/ \E t \in Threads : InsertAcquire(t)
    \/ \E t \in Threads : InsertWrite(t)
    \/ \E t \in Threads, idx_ok \in BOOLEAN : InsertFinish(t, idx_ok)
    \/ \E t \in Threads : IndexLoad(t)
    \/ \E t \in Threads, idx_ok \in BOOLEAN : IndexBuild(t, idx_ok)
    \/ \E t \in Threads : IndexSave(t)
    \/ \E t \in Threads : TxBegin(t)
    \/ \E t \in Threads, idx_ok \in BOOLEAN : CommitOp(t, idx_ok)
    \/ \E t \in Threads : TxSave(t)
    \/ \E t \in Threads : TxRollback(t)
    \/ \E t \in Threads : TxRollbackAgain(t)
    \/ Tick

SpecThreads == InitThreads /\ [][NextThreads]_vars

----------------------------------------------------------------------------
(* Two callers, with debounce_save and load_data in the steps between which *)
(* the other caller can run: the comparison of the clock with               *)
(* last_save_time and the write that follows it, the test of data_loaded    *)
(* and the assignment that follows it.  insert calls both holding the lock, *)
(* create_index calls them holding none.                                    *)

SaveQueriesOf(t) ==
    IF t = "t1" THEN { "INDEX FIELD name" }
    ELSE { "ADD DATA (name='John')", "ADD DATA (name='Bob')" }

\* create_index: `if not self.data_loaded` of create_index and of load_data;
\* no lock is taken
IndexLoadCheck(t) ==
    /\ At(t, "create_index")
    /\ Goto(t, IF data_loaded THEN "index_loaded" ELSE "load_data", 0, "")
    /\ UNCHANGED <<now, schema, data, heap, data_loaded, indexes, last_save_time,
                   cache, persisted, others, last, lock, tx>>

\* load_data: self.data = self.db.load_collection_data(self.name);
\* self.data_loaded = True
IndexLoadAssign(t) ==
    /\ At(t, "load_data")
    /\ Len(heap) + Len(persisted.data.keys) <= MaxRef
    /\ IndexLoaded(t, load_data([Store EXCEPT !.data_loaded = FALSE], Up(TRUE)))

\* the rest of parse_query once the Collection method returned with store s
SaveReturn(t, s) ==
    IF Called(t).action = "INSERT"
    THEN /\ lock' = "none"
         /\ Returned(t, cache_results(inserted([s |-> s, err |-> "none", ret |-> pc[t].ret],
                                               Called(t)),
                                      pc[t].text),
                     pc[t].ret, tx)
    ELSE /\ lock' = lock
         /\ Returned(t, cache_results(answered([s |-> s, err |-> "none"],
                                               [indexed |-> Join(Called(t).index_field, ",")]),
                                      pc[t].text),
                     "", tx)

InsertRebuilt(t, ri) ==
    IF ri.err # "none"
    THEN /\ lock' = "none"
         /\ Returned(t, cache_results(inserted(
                            insert_undo([s |-> [Store EXCEPT !.indexes = ri.indexes],
                                         err |-> ri.err], pc[t].ret),
                            Called(t)),
                        pc[t].text),
                     "", tx)
    ELSE /\ SetStoreWith([Store EXCEPT !.indexes = ri.indexes], Snapshots(tx))
         /\ Goto(t, "debounce_save", 0, pc[t].ret)
         /\ UNCHANGED <<now, schema, last, lock, tx>>

\* insert: the loop that rebuilds every index, under the lock
InsertRebuild(t, idx_ok) ==
    /\ At(t, "insert_written")
    /\ InsertRebuilt(t, rebuild_indexes(indexes.keys, data, heap, indexes, idx_ok))

IndexBuilt(t, b) ==
    /\ SetStoreWith([Store EXCEPT !.indexes = b.indexes], Snapshots(tx))
    /\ Goto(t, IF b.err = "none" THEN "debounce_save" ELSE "idle", 0, "")
    /\ UNCHANGED <<now, schema, last, lock, tx>>

\* create_index: IndexManager.build_index(fields, self.data, self.indexes)
IndexBuildOnly(t, idx_ok) ==
    /\ At(t, "index_loaded")
    /\ IndexBuilt(t, build_index(Called(t).index_field, data, heap, indexes, idx_ok))

\* debounce_save: current_time = time.time() and the comparison with
\* self.last_save_time
SaveCheck(t) ==
    /\ At(t, "debounce_save")
    /\ IF now - last_save_time >= save_interval
       THEN /\ Goto(t, "save_to_file", now, pc[t].ret)
            /\ UNCHANGED <<now, schema, data, heap, data_loaded, indexes, last_save_time,
                           cache, persisted, others, last, lock, tx>>
       ELSE SaveReturn(t, Store)

\* debounce_save: self.save_to_file(); self.last_save_time = current_time;
\* self.cache.clear()
SaveFlush(t) ==
    /\ At(t, "save_to_file")
    /\ SaveReturn(t, [Store EXCEPT !.persisted = save_to_file(Store, Up(TRUE)),
                                   !.last_save_time = pc[t].i,
                                   !.cache = EmptyDict])

NextSave ==
    \/ \E t \in Threads : \E text \in SaveQueriesOf(t) : Call(t, text)
    \/ \E t \in Threads : InsertAcquire(t)
    \/ \E t \in Threads : InsertWrite(t)
    \/ \E t \in Threads, idx_ok \in BOOLEAN : InsertRebuild(t, idx_ok)
    \/ \E t \in Threads : IndexLoadCheck(t)
    \/ \E t \in Threads : IndexLoadAssign(t)
    \/ \E t \in Threads, idx_ok \in BOOLEAN : IndexBuildOnly(t, idx_ok)
    \/ \E t \in Threads : SaveCheck(t)
    \/ \E t \in Threads : SaveFlush(t)
    \/ Tick

SpecSave == InitThreads /\ [][NextSave]_vars

\* a FETCH by equality with a bare numeric literal, over a record with
\* another age and a record without age
BareQueries ==
    { "ADD DATA (name='John', age=30)", "ADD DATA (name='Bob')",
      "FETCH FILTER (age=25)" }

InitBare == InitWith({<<>>}, {od_empty})

NextBare == Calls(BareQueries) \/ Tick

SpecBare == InitBare /\ [][NextBare]_vars

\* Collection.delete called with operator-object conditions, which no query
\* text parses to, over records with a numeric age and without age
OpsQueries ==
    { "ADD DATA (name='John', age=30)", "ADD DATA (name='Bob')" }

\* an operator-object condition
OpsCond(ops) == [kind |-> "ops", ops |-> ops]

OpsConditions ==
    { [age |-> OpsCond(<< <<"$gte", 30>> >>)],
      [age |-> OpsCond(<< <<"$gt", 30>> >>)],
      [age |-> OpsCond(<< <<"$gt", 18>>, <<"$lte", 30>> >>)],
      [age |-> OpsCond(<< <<"$lt", 31>>, <<"$gte", 31>> >>)],
      [age |-> OpsCond(<< <<"$in", {"30"}>> >>)],
      [age |-> OpsCond(<< <<"$in", {"30.0", "31"}>> >>)],
      [name |-> OpsCond(<< <<"$in", {"John"}>> >>)],
      [zip |-> OpsCond(<< <<"$gte", 0>> >>)] }

\* collection.delete(query)
DeleteCall(query, idx_ok, store_ok) ==
    /\ HeapRoom(0)
    /\ LET r == delete(Store, Env(idx_ok, store_ok), query) IN
       /\ SetStore(r.s)
       /\ last' = [text |-> "", action |-> "delete", op |-> query, hit |-> FALSE,
                   err |-> r.err, cause |-> r.err,
                   results |-> <<ValRow([deleted |-> r.ret])>>]
    /\ UNCHANGED <<now, schema, lock, pc, tx>>

InitOps == InitWith({<<>>}, {od_empty})

NextOps ==
    \/ Calls(OpsQueries)
    \/ \E query \in OpsConditions, idx_ok \in BOOLEAN, store_ok \in BOOLEAN :
          DeleteCall(query, idx_ok, store_ok)
    \/ Tick

SpecOps == InitOps /\ [][NextOps]_vars

\* index builds over one and over two fields, with a record that lacks one of
\* the fields
BuildQueries ==
    { "ADD DATA (name='Bob')", "INDEX FIELD age,name", "INDEX FIELD name" }

\* database.json holds a record with name and age and a record with name only
BuildFile ==
    od_set(od_set(od_empty, "1",
                  [name |-> "John", age |-> "30.0", _id |-> "1", created_at |-> "0"]),
           "2", [name |-> "Bob", _id |-> "2", created_at |-> "0"])

InitBuild == InitWith({<<>>}, {BuildFile})

NextBuild == Calls(BuildQueries) \/ Tick

SpecBuild == InitBuild /\ [][NextBuild]_vars

\* inserts, an update and a delete over a record that expires and a record
\* that does not
ExpireQueries ==
    { "ADD DATA (name='John', ttl=1)", "ADD DATA (name='John')",
      "MODIFY FILTER (name='John') WITH (name='Bob')", "REMOVE FILTER (name='John')" }

InitExpire == InitWith({<<>>}, {od_empty})

NextExpire == Calls(ExpireQueries) \/ Tick

SpecExpire == InitExpire /\ [][NextExpire]_vars

\* updates whose payload holds a field that can be set and one that cannot,
\* over two records that meet the condition
PayloadQueries ==
    { "ADD DATA (name='John')", "ADD DATA (name='John', ttl=1)",
      "MODIFY FILTER (name='John') WITH (name='Bob', _id='9')",
      "MODIFY FILTER (name='John') WITH (name='Bob', age='x')" }

InitPayload == InitWith({<<>>}, {od_empty})

NextPayload == Calls(PayloadQueries) \/ Tick

SpecPayload == InitPayload /\ [][NextPayload]_vars

\* inserts and deletes, starting from an empty collection
IdQueries ==
    { "ADD DATA (name='John')", "ADD DATA (name='Bob')", "REMOVE FILTER (name='John')" }

InitIds == InitWith({<<>>}, {od_empty})

NextIds == Calls(IdQueries) \/ Tick

SpecIds == InitIds /\ [][NextIds]_vars

----------------------------------------------------------------------------
(* Properties *)

\* the record map by value, id -> fields: the one in memory, or the one of
\* database.json while the collection is not loaded
Records ==
    IF data_loaded THEN [id \in DOMAIN data.map |-> heap[data.map[id]]]
    ELSE persisted.data.map

\* a step that is a call of parse_query which was not answered from the cache
Executed(actions) == now' = now /\ last'.action \in actions /\ ~last'.hit

\* C1: after a TRANSACT whose commit failed and rolled back, the record map
\* equals the record map the transaction was constructed on: the same ids,
\* and for every id the same field values.
C1_RollbackRestoresRecords ==
    [][(Executed({"TRANSACT"}) /\ last'.err # "none" /\ data_loaded)
          => Records' = Records]_vars

\* C2: every index of the index map equals the index a fresh build over the
\* current record map gives for its field tuple, after every completed
\* operation (failed ones included).
C2_IndexesMatchRecords ==
    data_loaded =>
        \A k \in DOMAIN indexes.map :
            indexes.map[k] = index_of(split_key(k), data, heap)

\* C3: with a non-empty schema every stored record holds every schema field
\* and no field outside the schema other than ttl, updated_at, _id, created_at.
C3_SchemaGate ==
    (Len(schema) > 0 /\ data_loaded) =>
        \A id \in DOMAIN Records :
            /\ SeqToSet(schema) \subseteq DOMAIN Records[id]
            /\ DOMAIN Records[id] \subseteq
                  SeqToSet(schema) \cup {"ttl", "updated_at", "_id", "created_at"}

\* the payload of the INSERT or UPDATE query names _id, created_at or updated_at
NamesReserved(text) ==
    /\ parse_my_query(text).action \in {"INSERT", "UPDATE"}
    /\ (DOMAIN parse_my_query(text).data) \cap ReservedFields # {}

\* the payload of the query is put on a record: always for an INSERT, for an
\* UPDATE when a record matches its conditions
Reaches(text) ==
    \/ parse_my_query(text).action = "INSERT"
    \/ \E id \in DOMAIN data.map :
          match_query(heap[data.map[id]], parse_my_query(text).conditions, TRUE, now)

\* C4: an Insert or Update whose payload names _id, created_at or updated_at
\* is rejected with a ValidationError and no record is mutated.
C4_ReservedPayloadRejected ==
    [][(/\ Executed({"INSERT", "UPDATE"})
        /\ NamesReserved(last'.text)
        /\ data_loaded /\ Reaches(last'.text))
          => (last'.cause = "ValidationError" /\ heap' = heap /\ data' = data)]_vars

\* C7: a call whose key is in the cache returns the stored list and leaves
\* the record map, the index map, the persisted state, the cache and the save
\* time as they are, whatever the action of the query.
C7_CacheHitChangesNothing ==
    [][(now' = now /\ query_key(last'.text) \in DOMAIN cache)
          => /\ last'.results = cache[query_key(last'.text)]
             /\ last'.err = "none"
             /\ UNCHANGED <<data, heap, data_loaded, indexes, persisted, cache,
                            last_save_time>>]_vars

\* C7 happens: a TRANSACT query was answered from the cache
C7_Witness == last.hit /\ last.action = "TRANSACT"

\* a result list by value: every row as the dict the caller reads
View(results, h) ==
    [i \in 1..Len(results) |->
        IF "ref" \in DOMAIN results[i] THEN h[results[i].ref] ELSE results[i].val]

\* C8: cache entries go only when a debounced flush saved, and then all go;
\* any other step leaves every cached result as it was computed, so that an
\* identical FETCH returns the result computed before the write.
C8_CacheKeptUntilFlush ==
    [][IF last_save_time' # last_save_time
       THEN DOMAIN cache' \subseteq {query_key(last'.text)}
       ELSE \A k \in DOMAIN cache :
               /\ k \in DOMAIN cache'
               /\ View(cache'[k], heap') = View(cache[k], heap)]_vars

\* C9: when the index rebuild after an Insert fails, the record map is the one
\* before the Insert.
C9_FailedInsertUndone ==
    [][(Executed({"INSERT"}) /\ last'.cause = "IndexError" /\ data_loaded)
          => Records' = Records]_vars

\* C10: when the index rebuild after an Update or a Delete fails, every record
\* has the field values it had before and every deleted record is back.
C10_FailedWriteUndone ==
    [][(Executed({"UPDATE", "DELETE"}) /\ last'.cause = "IndexError" /\ data_loaded)
          => Records' = Records]_vars
\* caller t has entered insert, create_index or commit and not left it
During(t) ==
    \/ pc[t].at \in {"insert_locked", "insert_written", "index_loaded", "index_built",
                    "commit_except"}
    \/ pc[t].at = "commit" /\ pc[t].i > 1

\* C5: a caller that is inside insert, update, delete, create_index, commit
\* or rollback holds the collection's lock.
C5_LockHeldThroughout == \A t \in Threads : During(t) => lock = t

\* the Transaction of caller t is constructed and neither committed nor
\* finally rolled back
TxOpen(t) == pc[t].at \in {"commit", "commit_except", "transact_except"}

\* the step is a rollback of t's Transaction
Rolls(t) == pc[t].at \in {"commit_except", "transact_except"} /\ pc'[t] # pc[t]

\* C6: while a Transaction is open no step of another caller changes the
\* record map or the index map, and a rollback keeps every record another
\* caller's completed Insert put there.
C6_TransactionIsolated ==
    [][\A t \in Threads :
          /\ (TxOpen(t) /\ pc'[t] = pc[t]) => (Records' = Records /\ indexes' = indexes)
          /\ Rolls(t) =>
                \A u \in Threads \ {t} :
                    (pc[u].at = "idle" /\ pc[u].ret \in DOMAIN data.map)
                        => pc[u].ret \in DOMAIN data'.map]_vars

\* C11: a call of parse_query with a text that parse_my_query rejects (with a
\* QueryError or a ValidationError) reports that error and leaves the record
\* map, the record dicts, the index map, the cache, the last save time and
\* database.json as they were
C11_ParseFailureChangesNothing ==
    [][(now' = now /\ parse_my_query(last'.text).perr # "none")
         => /\ last'.err = parse_my_query(last'.text).perr
            /\ UNCHANGED <<data, heap, data_loaded, indexes, last_save_time,
                           cache, persisted>>]_vars

\* a rejected text was submitted to a loaded collection with a record, an
\* index and a cached result
C11_Witness ==
    /\ last.err # "none"
    /\ last.err = parse_my_query(last.text).perr
    /\ data_loaded /\ data.keys # <<>>
    /\ indexes.keys # <<>>
    /\ cache # EmptyDict

RECURSIVE Prefix(_, _, _, _)
\* the store after the first i ops were issued one after the other as direct
\* calls of insert, update and delete
Prefix(ops, s, e, i) ==
    IF i = 0 THEN s ELSE apply_op(Prefix(ops, s, e, i - 1), e, ops[i]).s

\* r is what the loop of commit leaves: the ops before the first one that
\* raises were applied in the order of the list, that one was attempted, and
\* none after it
ReplayedInOrder(ops, s, e, r) ==
    /\ r.applied \in 0..Len(ops)
    /\ \A i \in 1..r.applied :
          apply_op(Prefix(ops, s, e, i - 1), e, ops[i]).err = "none"
    /\ IF r.applied = Len(ops)
       THEN r.err = "none" /\ r.s = Prefix(ops, s, e, Len(ops))
       ELSE /\ r.err # "none"
            /\ r.err = apply_op(Prefix(ops, s, e, r.applied), e, ops[r.applied + 1]).err
            /\ r.s = Prefix(ops, s, e, r.applied + 1)

\* the TRANSACT texts of CommitQueries
TransactTexts == { text \in CommitQueries : parse_my_query(text).action = "TRANSACT" }

\* C12: from every state the collection can be in, and with the persistence
\* backend up or down, the loop of commit applies the buffered ops in the
\* order they were buffered and applies no op after the first one that fails
C12_CommitInOrder ==
    \A text \in TransactTexts, idx_ok \in BOOLEAN, store_ok \in BOOLEAN :
        ReplayedInOrder(parse_my_query(text).transact_ops, Store,
                        Env(idx_ok, store_ok),
                        replay(parse_my_query(text).transact_ops, Store,
                               Env(idx_ok, store_ok), 0))

\* a transaction of three ops whose middle op failed was submitted to a loaded
\* collection holding a record its last op would have deleted
C12_Witness ==
    /\ last.action = "TRANSACT" /\ last.err # "none" /\ ~last.hit
    /\ Len(parse_my_query(last.text).transact_ops) = 3
    /\ data_loaded /\ data.keys # <<>>

\* c is what commit of the transaction t leaves: if it raises, it raises a
\* TransactionError (its own, or that of the rollback it ran) after rollback
\* assigned the snapshot to the record map and the index map
RolledBackFirst(t, c) ==
    c.err # "none" =>
        /\ c.err = "TransactionError"
        /\ c.rb_err \in {"none", "TransactionError"}
        /\ c.s.data = t.original_data
        /\ c.s.indexes = t.original_indexes

\* a Transaction on the store holding the ops of a TRANSACT text
TransactionOf(text) ==
    [Transaction(Store) EXCEPT !.operations = parse_my_query(text).transact_ops]

\* C13: from every state the collection can be in, whichever op of the
\* transaction fails (the first, the middle or the last one), commit runs
\* rollback before it raises, and what it raises is a TransactionError
C13_RollbackBeforeError ==
    \A text \in TransactTexts, idx_ok \in BOOLEAN, store_ok \in BOOLEAN :
        RolledBackFirst(TransactionOf(text),
                        commit(Store, Env(idx_ok, store_ok), TransactionOf(text)))

\* a transaction whose first op fails was submitted to a loaded collection
\* holding a record, and parse_query reported the failure of commit
C13_Witness ==
    /\ last.text = "TRANSACT OPS (ADD DATA (_id='9'); MODIFY FILTER (name='John') WITH (name='Bob'))"
    /\ last.err = "QueryError" /\ last.cause = "ValidationError"
    /\ data_loaded /\ data.keys # <<>>

\* C14: a failure of the save that rollback requests reaches the caller of a
\* TRANSACT query as the TransactionError of rollback and as no other error,
\* and the record map and the index map are then the snapshot the transaction
\* captured when it was built
C14_FailedRollbackRestores ==
    [][Executed({"TRANSACT"})
         => /\ last'.err \in {"none", "QueryError", "TransactionError"}
            /\ last'.err = "TransactionError"
                 => /\ data' = Transaction(Store).original_data
                    /\ indexes' = Transaction(Store).original_indexes]_vars

\* the rollback of a failed transaction on a loaded collection with a record
\* could not save
C14_Witness ==
    /\ last.action = "TRANSACT" /\ last.err = "TransactionError"
    /\ data_loaded /\ data.keys # <<>>

\* the op has an empty payload or an empty condition
EmptyShape(op) ==
    \/ op.type \in {"INSERT", "UPDATE"} /\ DOMAIN op.data = {}
    \/ op.type \in {"UPDATE", "DELETE"} /\ DOMAIN op.conditions = {}

\* C15: a call of tx.insert, tx.update or tx.delete leaves the record map, the
\* record dicts, the index map, the cache and database.json as they were; an
\* op with an empty payload or an empty condition raises a ValidationError
\* and the op list is as before, any other op is appended at the end of the
\* op list and the snapshot of the transaction is kept
C15_BufferOnly ==
    [][(now' = now /\ last'.action \in {"insert", "update", "delete"})
         => /\ UNCHANGED <<data, heap, data_loaded, indexes, last_save_time,
                           cache, persisted>>
            /\ IF EmptyShape(last'.op)
               THEN last'.err = "ValidationError" /\ tx' = tx
               ELSE /\ last'.err = "none"
                    /\ tx' = [tx EXCEPT !["tx"].operations = Append(@, last'.op)]]_vars

\* an op with an empty condition was rejected by a transaction that holds
\* an op, on a loaded collection with a record
C15_Witness ==
    /\ last.action = "delete" /\ last.err = "ValidationError"
    /\ Held /\ Len(tx["tx"].operations) = 1
    /\ data_loaded /\ data.keys # <<>>

\* condition sets: none, an equality the stored records meet, one they do not
\* meet, and a comparison
TtlConditions ==
    { EmptyDict, [name |-> StrCond("John")], [name |-> StrCond("Bob")],
      [ttl |-> [kind |-> "ops", ops |-> << <<"$gte", 0>> >>]] }

\* the record dicts of the collection, and each of them without its created_at
TtlSubjects ==
    Range(heap) \cup
    { [f \in DOMAIN heap[i] \ {"created_at"} |-> heap[i][f]] : i \in DOMAIN heap }

\* C16: a record with created_at = T0 and ttl = S matches no condition set
\* from the instant T0 + S on and matches the empty condition set before it;
\* a record without ttl or without created_at matches the empty condition set
\* at any time
C16_TtlExpiry ==
    \A r \in TtlSubjects :
        IF "ttl" \in DOMAIN r /\ "created_at" \in DOMAIN r
        THEN IF now >= parse_time(r["created_at"]) + Float(r["ttl"])
             THEN \A c \in TtlConditions : ~match_query(r, c, TRUE, now)
             ELSE match_query(r, EmptyDict, TRUE, now)
        ELSE match_query(r, EmptyDict, TRUE, now)

\* a FETCH without filter found no row in a collection whose only records
\* have reached the end of their ttl
C16_Witness ==
    /\ last.text = "FETCH" /\ ~last.hit /\ last.err = "none" /\ last.results = <<>>
    /\ data.keys # <<>>
    /\ \A id \in DOMAIN data.map :
          /\ "ttl" \in DOMAIN heap[data.map[id]]
          /\ now >= parse_time(heap[data.map[id]]["created_at"])
                      + Float(heap[data.map[id]]["ttl"])

\* well-formed condition sets over one field: equalities, comparisons, $in
FieldConditions ==
    { [name |-> StrCond("John")], [name |-> StrCond("Bob")],
      [age |-> StrCond("30.0")], [age |-> OpsCond(<< <<"$gte", 18>> >>)],
      [age |-> OpsCond(<< <<"$gt", 30>>, <<"$lte", 31>> >>)],
      [ttl |-> OpsCond(<< <<"$in", {"1"}>> >>)], [ttl |-> StrCond("1")],
      [zip |-> StrCond("1")] }

\* well-formed condition sets over no field, one field and two fields
MatchConditions ==
    {EmptyDict} \cup FieldConditions \cup
    { [name |-> StrCond("John"), age |-> StrCond("30.0")],
      [name |-> StrCond("John"), ttl |-> OpsCond(<< <<"$in", {"1"}>> >>)],
      [age |-> OpsCond(<< <<"$gte", 18>> >>), zip |-> StrCond("1")] }

\* C17: for every record dict of the collection and every two well-formed
\* condition sets over disjoint fields, the record matches their union
\* exactly when it matches both of them, with and without the ttl check (a
\* dict of conditions has no order in the model: no well-formed condition
\* raises, so the order of the loop decides nothing)
C17_Conjunctive ==
    \A i \in DOMAIN heap, check_ttl \in BOOLEAN :
        \A c1 \in MatchConditions :
            \A c2 \in {c \in MatchConditions : DOMAIN c \cap DOMAIN c1 = {}} :
                match_query(heap[i], c1 @@ c2, check_ttl, now)
                    = (/\ match_query(heap[i], c1, check_ttl, now)
                       /\ match_query(heap[i], c2, check_ttl, now))

\* a FETCH of two conditions returned the one record, of two, that meets both
C17_Witness ==
    /\ last.text = "FETCH FILTER (name='John', age='30.0')"
    /\ ~last.hit /\ last.err = "none" /\ Len(last.results) = 1
    /\ Len(data.keys) = 2
    /\ \E id \in DOMAIN data.map : "age" \notin DOMAIN heap[data.map[id]]

\* C18: a FETCH that parse_query executed returns the rows that the same
\* FETCH returns on the same records when the collection has no index
C18_IndexLookupIsFullScan ==
    [][(Executed({"SELECT"}) /\ last'.err = "none")
         => last'.results
              = select([Store EXCEPT !.indexes = od_empty], Env(TRUE, TRUE),
                       parse_my_query(last'.text)).results]_vars

\* the row is a record dict with _id, name = 'John', age = '30' and created_at,
\* and without updated_at
ExampleRow(row, h) ==
    /\ "ref" \in DOMAIN row
    /\ {"_id", "name", "age", "created_at"} \subseteq DOMAIN h[row.ref]
    /\ h[row.ref]["name"] = "John"
    /\ h[row.ref]["age"] = "30"
    /\ "updated_at" \notin DOMAIN h[row.ref]

\* C19: on a collection without schema whose only record is the one that
\* ADD DATA (name='John', age=30) inserted, FETCH FILTER (age={$gte:18})
\* succeeds and returns one row: that record, with age = '30'
C19_InsertThenFetch ==
    [][(/\ now' = now
        /\ last'.text = "FETCH FILTER (age={$gte:18})"
        /\ data_loaded /\ Len(data.keys) = 1)
         => /\ last'.err = "none"
            /\ Len(last'.results) = 1
            /\ ExampleRow(last'.results[1], heap')]_vars

\* the conditions that the FILTER clause of an AGGREGATE text states
FilterOf(text) ==
    CASE text = "AGGREGATE (m=$max) FILTER (grade='Z')" -> [grade |-> StrCond("Z")]
      [] text = "AGGREGATE (max_age=$max, sum_age=$sum) FILTER (name='Z')" ->
           [name |-> StrCond("Z")]
      [] OTHER -> EmptyDict

\* the candidates of a row: the unexpired records that meet the filter and,
\* in a grouped aggregate, belong to the group of the row
CandidatesOf(q, row, records) ==
    IF q.group_by = "" THEN records
    ELSE SelectSeq(records, LAMBDA r : group_key(r, q.group_by) = row.val["group"])

\* results follow the policy for columns without a numeric value: None for
\* $avg, $min and $max, 0 for $sum; an aggregate without GROUP BY has one row
EmptySubsetPolicy(q, results, records) ==
    /\ q.group_by = "" => Len(results) = 1
    /\ \A i \in 1..Len(results), f \in DOMAIN q.aggregate :
          (/\ q.aggregate[f] # "$count"
           /\ Len(numeric_values(CandidatesOf(q, results[i], records),
                                 actual_field(f))) = 0)
            => results[i].val[f]
                 = IF q.aggregate[f] = "$sum" THEN Num(0, 1) ELSE Null

\* C20: in the rows an AGGREGATE query returns, a column whose group has no
\* record with a numeric value in the source field is None for $avg, $min and
\* $max and 0 for $sum, the records of a group being the unexpired records
\* that meet the FILTER of the query; without GROUP BY there is one row, also
\* when no record meets the FILTER
C20_EmptySubsetPolicy ==
    [][(Executed({"AGGREGATE"}) /\ last'.err = "none")
         => EmptySubsetPolicy(parse_my_query(last'.text), last'.results,
                matched_records([data |-> data', heap |-> heap'], [now |-> now],
                                FilterOf(last'.text)))]_vars

\* C21: the rows an AGGREGATE query returns are the rows computed over the
\* unexpired records that meet the conditions of its FILTER clause, and over
\* no other record
C21_FilterSelectsCandidates ==
    [][(Executed({"AGGREGATE"}) /\ last'.err = "none")
         => last'.results
              = aggregate_rows(parse_my_query(last'.text).aggregate,
                    matched_records([data |-> data', heap |-> heap'], [now |-> now],
                                    FilterOf(last'.text)),
                    parse_my_query(last'.text).group_by)]_vars

\* the ids of the candidates: the unexpired records of the loaded store s
\* that meet the conditions
CandidateIds(s, conditions) ==
    { id \in DOMAIN s.data.map :
        match_query(s.heap[s.data.map[id]], conditions, TRUE, now) }

\* the candidates a row stands for: all of them, or those of its group
RowIds(s, ids, row, group_by) ==
    IF group_by = "" THEN ids
    ELSE { id \in ids : group_key(s.heap[s.data.map[id]], group_by) = row.val["group"] }

\* r is what aggregate_query returned for a $count column n: in every row n
\* is the number of candidates of the row, and the values of n add up to the
\* number of candidates
CountsCandidates(r, ids, group_by) ==
    r.err = "none" =>
        /\ \A i \in 1..Len(r.ret) :
              r.ret[i].val["n"] = Num(Cardinality(RowIds(r.s, ids, r.ret[i], group_by)), 1)
        /\ (group_by # "" \/ Len(r.ret) = 1)
        /\ sum([i \in 1..Len(r.ret) |-> r.ret[i].val["n"].n]) = Cardinality(ids)

CountConditions ==
    { EmptyDict, [name |-> StrCond("John")], [age |-> StrCond("30.0")] }

\* what aggregate_query returns for a $count and a $sum column
Counted(conditions, group_by) ==
    aggregate_query(Store, Env(TRUE, TRUE), [n |-> "$count", sum_age |-> "$sum"],
                    conditions, group_by)

\* C22: from every state the collection can be in, for every condition set
\* and with and without GROUP BY, $count is in every row the number of
\* candidate records of the row's group, whether or not they hold a numeric
\* value in a source field, and the $count values of the rows add up to the
\* number of candidate records
C22_CountCandidates ==
    \A conditions \in CountConditions, group_by \in {"", "name", "age"} :
        CountsCandidates(Counted(conditions, group_by),
                         CandidateIds(Counted(conditions, group_by).s, conditions),
                         group_by)

\* a grouped count returned two groups, one of them for a record without age
C22_Witness ==
    /\ last.text = "AGGREGATE (n=$count, sum_age=$sum) GROUP BY name"
    /\ ~last.hit /\ last.err = "none" /\ Len(last.results) = 2
    /\ \E id \in DOMAIN data.map : "age" \notin DOMAIN heap[data.map[id]]

\* the (left, right) pairs a join is to emit: the left record is unexpired
\* and meets the conditions, the right record is unexpired, both hold their
\* on-field and the two values are equal
JoinPairs(left, right, q) ==
    { p \in left \X right :
        /\ match_query(p[1], q.conditions, TRUE, now)
        /\ match_query(p[2], EmptyDict, TRUE, now)
        /\ q.join.on[1] \in DOMAIN p[1]
        /\ q.join.on[2] \in DOMAIN p[2]
        /\ p[1][q.join.on[1]] = p[2][q.join.on[2]] }

\* every left field unchanged, and every right field under '<name>_<field>'
MergedRow(l, name, r) ==
    [k \in DOMAIN l \cup {name \o "_" \o f : f \in DOMAIN r} |->
        IF k \in DOMAIN l THEN l[k]
        ELSE r[CHOOSE f \in DOMAIN r : name \o "_" \o f = k]]

\* rows holds one merged row for each of the pairs, and no other row
JoinedExactly(rows, pairs, name) ==
    /\ Range(rows) = { ValRow(MergedRow(p[1], name, p[2])) : p \in pairs }
    /\ Len(rows) = Cardinality(pairs)

\* C23: the rows a JOIN query returns are the merged rows of exactly the
\* pairs of an unexpired left record that meets the conditions and an
\* unexpired right record that hold equal values in their on-fields; a record
\* that lacks its on-field is in no row
C23_JoinPairs ==
    [][(Executed({"JOIN"}) /\ last'.err = "none")
         => JoinedExactly(last'.results,
                JoinPairs({heap'[data'.map[id]] : id \in DOMAIN data'.map},
                          Range(others'[parse_my_query(last'.text).join.collection]
                                    .file.map),
                          parse_my_query(last'.text)),
                parse_my_query(last'.text).join.collection)]_vars

\* C24: a JOIN that names a collection the database does not hold ends with a
\* QueryError that stands for a CollectionError and with no rows, puts
\* nothing in the cache, and leaves the records and the indexes of the
\* collection queried and the other collections as they were
C24_JoinUnknownCollection ==
    [][(/\ Executed({"JOIN"})
        /\ parse_my_query(last'.text).join.collection \notin DOMAIN others)
         => /\ last'.err = "QueryError" /\ last'.cause = "CollectionError"
            /\ last'.results = <<>>
            /\ cache' = cache
            /\ Records' = Records
            /\ indexes' = indexes
            /\ others' = others]_vars

\* a JOIN with a collection that does not exist was refused on a loaded
\* collection with a record and a cached result
C24_Witness ==
    /\ last.text = "JOIN nowhere ON cid=cid"
    /\ last.err = "QueryError" /\ last.cause = "CollectionError"
    /\ data_loaded /\ data.keys # <<>>
    /\ cache # EmptyDict

\* C25: an insert that succeeds assigns an id no record holds: the collection
\* has one record more than before, and every record it had is still there
\* with the same fields
C25_InsertKeepsRecords ==
    [][(Executed({"INSERT"}) /\ last'.err = "none")
         => /\ Cardinality(DOMAIN Records') = Cardinality(DOMAIN Records) + 1
            /\ \A id \in DOMAIN Records :
                  id \in DOMAIN Records' /\ Records'[id] = Records[id]]_vars

\* C26: a save that debounce_save performs comes at least save_interval
\* after the save before it, whose time last_save_time holds
C26_SavesApart ==
    [][\A t \in Threads :
          (pc[t].at = "save_to_file" /\ pc'[t].at = "idle")
              => now - last_save_time >= save_interval]_vars

\* C27: a lazy load that a reader completes while the collection is loaded
\* (a writer loaded it meanwhile and applied its writes) leaves the record
\* map as it is
C27_LoadKeepsWrites ==
    [][\A t \in Threads :
          (pc[t].at = "load_data" /\ pc'[t].at # "load_data" /\ data_loaded)
              => Records' = Records]_vars

\* C28: every record that a FETCH with the condition age=25, the value
\* written as a bare numeric literal, returns has the field age, and its
\* trimmed value is the number 25
C28_BareLiteralEquality ==
    [][(Executed({"SELECT"}) /\ last'.err = "none"
          /\ last'.text = "FETCH FILTER (age=25)")
         => \A i \in 1..Len(last'.results) :
               LET record == View(last'.results, heap')[i] IN
               /\ "age" \in DOMAIN record
               /\ Strip(record["age"]) \in {"25", "25.0"}]_vars

\* the record's value of the field parses as a number that stands in every
\* listed comparison to its operand, and for $in the value's string form is
\* in the list
MeetsOps(record, query) ==
    \A f \in DOMAIN query :
        /\ f \in DOMAIN record
        /\ IsFloat(Strip(record[f]))
        /\ \A i \in 1..Len(query[f].ops) :
              LET op == query[f].ops[i][1]
                  v  == query[f].ops[i][2]
                  n  == Float(Strip(record[f]))
              IN CASE op = "$gt"  -> n > v
                   [] op = "$gte" -> n >= v
                   [] op = "$lt"  -> n < v
                   [] op = "$lte" -> n <= v
                   [] op = "$in"  -> record[f] \in v

\* C29: a delete by an operator-object condition removes exactly the
\* unexpired records whose value of the field parses as a number for which
\* every listed comparison holds ($in: whose string form is in the list);
\* the other records stay as they are
C29_OperatorConditions ==
    [][(now' = now /\ last'.action = "delete" /\ last'.err # "CollectionError")
         => /\ DOMAIN Records'
                 = {id \in DOMAIN Records :
                       ~(/\ ~is_expired(Records[id], now)
                         /\ MeetsOps(Records[id], last'.op))}
            /\ \A id \in DOMAIN Records' : Records'[id] = Records[id]]_vars

\* a delete by a comparison on age removed the record of age 30.0 and kept a
\* record without age
C29_Witness ==
    /\ last.action = "delete" /\ last.err = "none"
    /\ "age" \in DOMAIN last.op
    /\ last.results = <<ValRow([deleted |-> 1])>>
    /\ data.keys # <<>>
    /\ \A id \in DOMAIN data.map : "age" \notin DOMAIN heap[data.map[id]]

\* the record has every field of the tuple
HasFields(record, fields) == \A i \in 1..Len(fields) : fields[i] \in DOMAIN record

\* the record's values for the fields, in the given order, joined by "|"
ValueOf(record, fields) == Join([i \in 1..Len(fields) |-> record[fields[i]]], "|")

\* each composite value of the index maps to the ids of the records that
\* have all the fields and produce it, and every such record is under its
\* value
IndexedExactly(index, records, fields) ==
    /\ \A cv \in DOMAIN index :
          /\ index[cv] # {}
          /\ index[cv] = {id \in DOMAIN records :
                             /\ HasFields(records[id], fields)
                             /\ ValueOf(records[id], fields) = cv}
    /\ \A id \in DOMAIN records :
          HasFields(records[id], fields) => ValueOf(records[id], fields) \in DOMAIN index

\* the index maps hold the same indexes under every key but `key`
OthersKept(before, after, key) ==
    /\ (DOMAIN after.map) \ {key} = (DOMAIN before.map) \ {key}
    /\ \A k \in (DOMAIN after.map) \ {key} : after.map[k] = before.map[k]

\* C30: an index build on a loaded collection stores, under the fields joined
\* by ",", the map from each composite value to exactly the ids of the
\* records that have all the fields and produce that value, whatever index
\* was under that key before; the indexes under the other keys stay as they
\* were, and a second build over the same records stores the same index
C30_BuildIndex ==
    [][(Executed({"INDEX"}) /\ last'.cause \notin {"CollectionError", "ValidationError"})
         => /\ od_has(indexes', Join(parse_my_query(last'.text).index_field, ","))
            /\ IndexedExactly(
                  indexes'.map[Join(parse_my_query(last'.text).index_field, ",")],
                  Records', parse_my_query(last'.text).index_field)
            /\ OthersKept(indexes, indexes',
                          Join(parse_my_query(last'.text).index_field, ","))
            /\ build_index(parse_my_query(last'.text).index_field, data', heap',
                           indexes', TRUE).indexes = indexes']_vars

\* an index over age and name was built on a collection with a record that
\* lacks age, next to an index over name
C30_Witness ==
    /\ last.text = "INDEX FIELD age,name" /\ ~last.hit
    /\ last.cause \in {"none", "IndexError"}
    /\ od_has(indexes, "name") /\ od_has(indexes, "age,name")
    /\ DOMAIN indexes.map["age,name"] = {"30.0|John"}
    /\ \E id \in DOMAIN data.map : "age" \notin DOMAIN heap[data.map[id]]

\* the group a candidate belongs to: the raw value of the field, "null" for
\* a record without the field
RawGroup(record, group_by) ==
    IF group_by \in DOMAIN record THEN record[group_by] ELSE "null"

\* r is what a grouped aggregate_query returned for the candidates ids: the
\* rows carry pairwise different group keys, every row's key is the group of
\* a candidate, and every candidate's group is the key of a row
Partitioned(r, ids, group_by) ==
    r.err = "none" =>
        /\ \A i \in 1..Len(r.ret) : "group" \in DOMAIN r.ret[i].val
        /\ \A i, j \in 1..Len(r.ret) :
              r.ret[i].val["group"] = r.ret[j].val["group"] => i = j
        /\ \A i \in 1..Len(r.ret) : \E id \in ids :
              RawGroup(r.s.heap[r.s.data.map[id]], group_by) = r.ret[i].val["group"]
        /\ \A id \in ids : \E i \in 1..Len(r.ret) :
              RawGroup(r.s.heap[r.s.data.map[id]], group_by) = r.ret[i].val["group"]

\* r is what an aggregate_query without GROUP BY returned: one row, without
\* a group key
OneRow(r) ==
    r.err = "none" => Len(r.ret) = 1 /\ "group" \notin DOMAIN r.ret[1].val

\* C31: from every state the collection can be in and for every condition
\* set, a grouped aggregate returns one row for every raw value of the
\* group-by field among the candidates ("null" for the candidates without the
\* field) and no other row, each row with its key under group; an aggregate
\* without GROUP BY returns one row without group
C31_GroupsPartition ==
    \A conditions \in CountConditions :
        /\ \A group_by \in {"name", "age"} :
              Partitioned(Counted(conditions, group_by),
                          CandidateIds(Counted(conditions, group_by).s, conditions),
                          group_by)
        /\ OneRow(Counted(conditions, ""))

\* a grouped aggregate ran over three records, two of which differ in
\* trailing whitespace of the group-by value only, and grouping the same
\* records by age puts those without age in the group null
C31_Witness ==
    /\ last.text = "AGGREGATE (n=$count, sum_age=$sum) GROUP BY name"
    /\ ~last.hit /\ last.err = "none"
    /\ {last.results[i].val["group"] : i \in 1..Len(last.results)} = {"John", "John "}
    /\ \E i \in 1..Len(Counted(EmptyDict, "age").ret) :
          Counted(EmptyDict, "age").ret[i].val["group"] = "null"

\* the record map of the store s by value, id -> fields
RecordsOf(s) == [id \in DOMAIN s.data.map |-> s.heap[s.data.map[id]]]

RECURSIVE DirectCalls(_, _, _)
\* the store after collection.insert / update / delete called for the ops,
\* one after the other, each call returning
DirectCalls(ops, s, e) ==
    IF Len(ops) = 0 THEN s
    ELSE DirectCalls(Tail(ops),
            (CASE ops[1].type = "INSERT" -> insert(s, e, ops[1].data)
               [] ops[1].type = "UPDATE" -> update(s, e, ops[1].conditions, ops[1].data)
               [] ops[1].type = "DELETE" -> delete(s, e, ops[1].conditions)).s,
            e)

\* C32: after a TRANSACT that committed, the record map and the index map
\* are the ones that direct calls of insert, update and delete for the same
\* ops, in the same order, leave when made on the state before the TRANSACT
C32_CommitIsDirectCalls ==
    [][(Executed({"TRANSACT"}) /\ last'.err = "none")
         => /\ data_loaded'
            /\ data'.keys
                 = DirectCalls(parse_my_query(last'.text).transact_ops, Store,
                               Env(TRUE, TRUE)).data.keys
            /\ Records'
                 = RecordsOf(DirectCalls(parse_my_query(last'.text).transact_ops, Store,
                                         Env(TRUE, TRUE)))
            /\ indexes'
                 = DirectCalls(parse_my_query(last'.text).transact_ops, Store,
                               Env(TRUE, TRUE)).indexes]_vars

\* a TRANSACT that inserts John and then renames every John committed on a
\* collection that held a record before: every record is Bob
C32_Witness ==
    /\ last.text = "TRANSACT OPS (ADD DATA (name='John'); MODIFY FILTER (name='John') WITH (name='Bob'))"
    /\ ~last.hit /\ last.err = "none"
    /\ Len(data.keys) >= 2
    /\ \A id \in DOMAIN data.map :
          /\ heap[data.map[id]]["name"] = "Bob"
          /\ "updated_at" \in DOMAIN heap[data.map[id]]

\* C33: after a TRANSACT that was submitted while the collection was not
\* loaded and whose commit failed and rolled back, the collection holds the
\* records database.json held for it before the TRANSACT
C33_ColdRollbackKeepsRecords ==
    [][(Executed({"TRANSACT"}) /\ last'.err # "none" /\ ~data_loaded)
          => Records' = persisted.data.map]_vars

\* database.json holds the schema, the record map and the index map the
\* collection has in memory
SavedIsMemory ==
    /\ data_loaded
    /\ persisted.schema = schema
    /\ persisted.data.keys = data.keys
    /\ persisted.data.map = Records
    /\ persisted.indexes = indexes

\* C34: an Insert, Update or Delete that succeeds and changes the record map
\* when save_interval has passed since the last save performs a save; and
\* after every Insert, Update or Delete in which a save was performed
\* database.json holds the whole state the collection has in memory, the
\* changes whose own save the debounce skipped included.  (A TRANSACT saves
\* in the middle of its replay; what it leaves is the subject of C38.)
C34_FlushSavesMemory ==
    [][Executed({"INSERT", "UPDATE", "DELETE"})
         => /\ (/\ last'.err = "none"
                 /\ Records' # Records
                 /\ now - last_save_time >= save_interval)
               => last_save_time' = now
            /\ last_save_time' # last_save_time => SavedIsMemory']_vars

\* an Insert saved a collection that holds a record updated earlier, within
\* save_interval of the save before
C34_Witness ==
    /\ last.action = "INSERT" /\ ~last.hit /\ last.err = "none"
    /\ last_save_time = now /\ now > save_interval
    /\ SavedIsMemory
    /\ \E id \in DOMAIN persisted.data.map :
          /\ "updated_at" \in DOMAIN persisted.data.map[id]
          /\ persisted.data.map[id]["updated_at"] = persisted.data.map[id]["created_at"]
          /\ parse_time(persisted.data.map[id]["updated_at"]) < now

\* C35: every call of parse_query with an ADD DATA text that returns a row
\* {_id: k, ...}, answered from the cache or not, has put one more record in
\* the collection
C35_AddInsertsEveryTime ==
    [][(/\ now' = now /\ last' # last
        /\ last'.action = "INSERT" /\ last'.err = "none"
        /\ Len(last'.results) = 1)
         => Cardinality(DOMAIN Records') = Cardinality(DOMAIN Records) + 1]_vars

\* the ids of the records that are expired now
ExpiredIds == { id \in DOMAIN Records : is_expired(Records[id], now) }

\* C36: an Insert, Update or Delete leaves every record that is expired
\* when it runs in the record map with the fields it had, and an Update or
\* Delete counts no more records than there are unexpired ones
C36_ExpiredUntouched ==
    [][Executed({"INSERT", "UPDATE", "DELETE"})
         => /\ \A id \in ExpiredIds :
                  id \in DOMAIN Records' /\ Records'[id] = Records[id]
            /\ (last'.err = "none" /\ last'.action = "UPDATE")
                  => last'.results[1].val["updated"]
                       <= Cardinality(DOMAIN Records \ ExpiredIds)
            /\ (last'.err = "none" /\ last'.action = "DELETE")
                  => last'.results[1].val["deleted"]
                       <= Cardinality(DOMAIN Records \ ExpiredIds)]_vars

\* the payload holds a reserved field or an age that is not a number
PayloadInvalid(update_data) ==
    \/ "_id" \in DOMAIN update_data
    \/ "created_at" \in DOMAIN update_data
    \/ "age" \in DOMAIN update_data /\ ~IsFloat(update_data["age"])

\* C37: after an Update that raised a ValidationError for its payload, every
\* record has the fields it had before, however many records meet the
\* condition
C37_UpdateAllOrNothing ==
    [][(/\ Executed({"UPDATE"}) /\ last'.cause = "ValidationError"
        /\ PayloadInvalid(parse_my_query(last'.text).data))
         => Records' = Records]_vars

\* an Update with a non-numeric age in its payload was refused on a
\* collection in which two unexpired records meet its condition
C37_Witness ==
    /\ last.text = "MODIFY FILTER (name='John') WITH (name='Bob', age='x')"
    /\ ~last.hit /\ last.err = "QueryError" /\ last.cause = "ValidationError"
    /\ data_loaded
    /\ Cardinality({id \in DOMAIN Records :
                      match_query(Records[id], [name |-> StrCond("John")], TRUE, now)}) >= 2

\* saved is the record map left by the first i ops of the list, for some i
\* short of the whole list: these ops succeed as direct calls on the store s,
\* and what they leave is not the record map of s
PartialCommit(ops, s, e, saved) ==
    \E i \in 1..(Len(ops) - 1) :
        /\ \A j \in 1..i : apply_op(Prefix(ops, s, e, j - 1), e, ops[j]).err = "none"
        /\ saved = RecordsOf(Prefix(ops, s, e, i))
        /\ saved # RecordsOf(s)

\* C38: once a TRANSACT query has returned the error of a commit that failed
\* and rolled back, the record map last saved to database.json is not the one
\* in which only the ops before the failing one are applied
C38_NoPartialCommitSaved ==
    [][(Executed({"TRANSACT"}) /\ last'.err # "none")
         => ~PartialCommit(parse_my_query(last'.text).transact_ops, Store,
                           Env(TRUE, TRUE), persisted'.data.map)]_vars

====
